---------------------------- MODULE Spec2Model ----------------------------
(***************************************************************************)
(* Model of the bookstore backend's authentication slice:                  *)
(*   routes/auth.ts       login, refresh (rotation), logout                *)
(*   middlewares/auth.ts  requireAuth, requireAdmin                        *)
(*   routes/admin.ts      PATCH /admin/users/:id/deactivate                *)
(*   routes/users.ts      GET /users/me                                    *)
(*   utils/security.ts    token signing, hashing, expiry decoding          *)
(*                                                                         *)
(* A request is a process that runs from one await to the next: each       *)
(* action is one datastore call together with the synchronous code that    *)
(* follows it, up to the next datastore call or the response.  The         *)
(* datastore executes single-row operations atomically.                    *)
(*                                                                         *)
(* Spec      all routes of the slice, requests served one after the other, *)
(*           the clock running.                                            *)
(* SpecRace  one login of one account, then refresh and logout of its      *)
(*           tokens in RaceProcs request slots at a fixed clock: the       *)
(*           interleavings of rotation and revocation.                     *)
(***************************************************************************)
EXTENDS Integers, Sequences, FiniteSets, TLC

\* ------------------------------------------------------------------ bounds
MaxTime == 1            \* the clock runs over 0..MaxTime seconds
MaxJti == 2             \* refresh tokens the server may sign (Spec)
RaceJti == 3            \* refresh tokens the server may sign (SpecRace)
RaceProcs == 2          \* requests in flight at the same time (SpecRace)
FailJti == 2            \* refresh tokens the server may sign (SpecFail)
SignupProcs == 2        \* signups in flight at the same time (SpecSignup)
SeedOrderCount == 2     \* orders the seed creates for user1
MaxOrders == 3          \* rows the Order table may hold (SpecOrders)
OrderJti == 2           \* refresh tokens the server may sign (SpecOrders)
RoleJti == 2            \* refresh tokens the server may sign (SpecRole)
CancelProcs == 2        \* cancel requests in flight at the same time (SpecCancel)
SessJti == 4            \* refresh tokens the server may sign (SpecSessions)
EdgeJti == 3            \* refresh tokens the server may sign (SpecEdge)
AccessExpiresIn == 1    \* JWT_ACCESS_EXPIRES_IN, scaled to the clock
RefreshExpiresIn == 1   \* JWT_REFRESH_EXPIRES_IN, scaled to the clock
SeedReviewCount == 2    \* reviews the seed creates
LikeJti == 2            \* refresh tokens the server may sign (SpecLikes)
CacheProcs == 2         \* category requests in flight at the same time (SpecCache)
MaxCatWrites == 2       \* category writes that may start (SpecCache)

MsPerSec == 1000

GhostId == 9            \* an id no user row has
Serial == {1}           \* the request slot of Spec

\* ------------------------------------------------------------- the tables
\* prisma/seed.ts: the two seeded accounts (display names in ASCII).
SeedUsers ==
  { [id |-> 1, email |-> "admin@example.com", name |-> "admin",
     passwordHash |-> <<"bcrypt", "P@ssw0rd!">>, role |-> "ADMIN", status |-> "ACTIVE"],
    [id |-> 2, email |-> "user1@example.com", name |-> "user1",
     passwordHash |-> <<"bcrypt", "P@ssw0rd!">>, role |-> "USER", status |-> "ACTIVE"] }

NoUser == [id |-> 0, email |-> "", name |-> "", passwordHash |-> <<>>,
           role |-> "", status |-> ""]

\* The principal summary the routes return and the gate attaches to req.user.
Summary(u) == [id |-> u.id, email |-> u.email, name |-> u.name,
               role |-> u.role, status |-> u.status]
NoCtx == Summary(NoUser)

\* prisma/seed.ts: sample orders, all of user1, PENDING and PAID in turn.
SeedOrders ==
  { [id |-> i + 1, userId |-> 2, status |-> IF i % 2 = 0 THEN "PENDING" ELSE "PAID"] :
      i \in 0..(SeedOrderCount - 1) }

NoOrder == [id |-> 0, userId |-> 0, status |-> ""]

\* prisma/seed.ts: the reviews of a book, written by user1 and the admin in
\* turn; like_count is left at its column default, 0.
SeedReviews ==
  [id \in 1..SeedReviewCount |->
     [userId |-> IF (id - 1) % 2 = 0 THEN 2 ELSE 1, likeCount |-> 0]]

\* prisma/seed.ts: if (i % 2 === 0) prisma.reviewLike.create, a like of
\* user1 on each review user1 wrote.
SeedLikes ==
  { [reviewId |-> id, userId |-> 2] : id \in { i \in 1..SeedReviewCount : (i - 1) % 2 = 0 } }

\* req.params.reviewId: not a positive integer, the seeded reviews, and an
\* id no review has.
ReviewIds == {0} \cup (1..SeedReviewCount) \cup {GhostId}

\* ----------------------------------------------------- the category cache
CATEGORY_CACHE_PREFIX == "categories:list"
\* 5 * 60 * 1000 ms, scaled to the clock: half a second.
CATEGORY_LIST_CACHE_TTL == MsPerSec \div 2

\* Category names a request body may carry; the empty one fails min(1).
CatNames == {"a", "b"}
\* The keyword query of GET /categories; the empty one filters nothing.
CatKeywords == {"", "a"}
\* req.params.id of the category routes.
CatIds == {0, 1, 2}

\* buildCacheKey(prefix, payload): the prefix followed by the payload.
buildCacheKey(prefix, payload) == <<prefix, payload>>
CacheKeys == { buildCacheKey(CATEGORY_CACHE_PREFIX, kw) : kw \in CatKeywords }

\* The body of a list response: the rows found, and (history) how many
\* writes the store had committed when they were read.
NoBody == [items |-> {}, ver |-> -1]
\* A key the Map does not hold.
NoEntry == [has |-> FALSE, value |-> NoBody, expiresAt |-> 0]

\* where.name = { contains: keyword.trim() } over one-letter names.
Matches(row, kw) == kw = "" \/ row.name = kw

Emails == {"admin@example.com", "user1@example.com", "nobody@example.com"}
RaceEmails == {"user1@example.com"}
Passwords == {"P@ssw0rd!", "wrong-password"}
SignupEmails == {"user1@example.com", "new1@example.com", "new2@example.com"}
SignupNames == {"kim", "lee"}
Targets == {1, 2, GhostId}
\* req.params.id of the order routes: not a positive integer, the ids the
\* table can hold, and one it cannot.
OrderIds == 0..(MaxOrders + 1)
OrderStatuses == {"PENDING", "PAID", "CANCELLED"}

\* ------------------------------------------------------------------ tokens
\* A token string is modelled by what jwt.verify and jwt.decode read from
\* it.  form: "signed" (the HS256 signature verifies against JWT_SECRET),
\* "tampered" (a JWT whose signature does not verify), "malformed" (not a
\* JWT), "empty" (the zero-length string), "none" (no token).
NoTok == [form |-> "none", sub |-> 0, role |-> "", type |-> "", jti |-> 0, exp |-> 0]
MalformedTok == [NoTok EXCEPT !.form = "malformed"]
EmptyTok == [NoTok EXCEPT !.form = "empty"]

\* iat is the issue time jwt.sign stamps, in whole seconds.
signAccessToken(userId, role, iat) ==
  [form |-> "signed", sub |-> userId, role |-> role, type |-> "access",
   jti |-> 0, exp |-> iat + AccessExpiresIn]

signRefreshToken(userId, role, jti, iat) ==
  [form |-> "signed", sub |-> userId, role |-> role, type |-> "refresh",
   jti |-> jti, exp |-> iat + RefreshExpiresIn]

\* sha256 over the whole token string: a digest, not the token.
hashToken(tok) == <<"sha256", tok.form, tok.sub, tok.role, tok.type, tok.jti, tok.exp>>

\* jwt.decode(token).exp as a Date (milliseconds); 0 stands for null.
getJwtExpirationDate_Seconds(tok) ==
  IF tok.form \in {"signed", "tampered"} /\ tok.exp # 0 THEN tok.exp ELSE 0

getJwtExpirationDate(tok) ==
  IF tok.form \in {"signed", "tampered"} /\ tok.exp # 0 THEN tok.exp * MsPerSec ELSE 0

\* jwt.verify: the signature is checked first, then exp against the clock
\* in whole seconds (clockTimestamp >= exp is TokenExpiredError).
jwtVerify_NoExp(tok, nowMs) ==
  IF tok.form # "signed" THEN "invalid" ELSE "ok"

jwtVerify(tok, nowMs) ==
  IF tok.form # "signed" THEN "invalid"
  ELSE IF nowMs \div MsPerSec >= tok.exp THEN "expired"
  ELSE "ok"

\* bcrypt.hash with a fresh salt; the salt plays no part in verification.
hashPassword(plain) == <<"bcrypt", plain>>

verifyPassword_Any(plain, hash) == TRUE

verifyPassword(plain, hash) == hash = <<"bcrypt", plain>>

\* Signed tokens the running server did not issue (JWT_SECRET falls back to
\* the constant 'dev-secret'): without a usable subject, and with a subject
\* that is no user.
Crafted ==
  { [form |-> "signed", sub |-> 0, role |-> "USER", type |-> "access", jti |-> 0,
     exp |-> MaxTime + 1],
    [form |-> "signed", sub |-> GhostId, role |-> "USER", type |-> "access", jti |-> 0,
     exp |-> MaxTime + 1],
    [form |-> "signed", sub |-> 0, role |-> "USER", type |-> "refresh", jti |-> 0,
     exp |-> MaxTime + 1] }

\* JWTs whose signature does not verify, with an exp the clock reaches: a
\* forged admin access token and a forged refresh token.
Forged ==
  { [form |-> "tampered", sub |-> 1, role |-> "ADMIN", type |-> ty, jti |-> 0,
     exp |-> MaxTime] : ty \in {"access", "refresh"} }

\* ------------------------------------------------- the Authorization header
\* The header after auth.split(' '): the first piece and the pieces after it.
HeaderForms == {"absent", "bearer", "basic", "bare", "dblspace", "trailing"}

Header(form, tok) ==
  CASE form = "absent"   -> [present |-> FALSE, scheme |-> "", rest |-> <<>>]
    [] form = "bearer"   -> [present |-> TRUE, scheme |-> "Bearer", rest |-> <<tok>>]
    [] form = "basic"    -> [present |-> TRUE, scheme |-> "Basic", rest |-> <<tok>>]
    [] form = "bare"     -> [present |-> TRUE, scheme |-> "Bearer", rest |-> <<>>]
    [] form = "dblspace" -> [present |-> TRUE, scheme |-> "Bearer", rest |-> <<EmptyTok, tok>>]
    [] form = "trailing" -> [present |-> TRUE, scheme |-> "Bearer", rest |-> <<tok, MalformedTok>>]

\* const [type, token] = auth.split(' '); NoTok stands for null.
extractToken(h) ==
  IF ~h.present THEN NoTok
  ELSE LET token == IF Len(h.rest) >= 1 THEN h.rest[1] ELSE EmptyTok
       IN IF h.scheme # "Bearer" \/ token.form = "empty" THEN NoTok ELSE token

\* ---------------------------------------------------------------- requests
\* A request: its inputs, its locals, what it has sent, the step it
\* answered from (at), whether one of its datastore calls threw (threw), and
\* what was true when it started (live, seq, afterOk, afterLogout,
\* inactiveAtStart).
Idle == [kind |-> "none", pc |-> "idle", at |-> "", tok |-> NoTok, hdr |-> "none",
         email |-> "", password |-> "", threw |-> FALSE, order |-> NoOrder,
         target |-> 0, user |-> NoCtx, newTok |-> NoTok, newAccess |-> NoTok,
         ran |-> FALSE, nresp |-> 0, status |-> 0, code |-> "", data |-> NoCtx,
         live |-> FALSE, seq |-> FALSE, afterOk |-> FALSE, afterLogout |-> FALSE,
         inactiveAtStart |-> FALSE, name |-> "", ver |-> 0, list |-> NoBody]

GateKinds == {"me", "deactivate"}
AdminKinds == {"deactivate"}
OrderKinds == {"orderCreate", "orderGet", "orderCancel", "orderStatus"}
OrderAdminKinds == {"orderStatus"}
RoleKinds == {"role"}
LikeKinds == {"like", "unlike"}
CatKinds == {"catCreate", "catUpdate", "catDelete"}
Roles == {"USER", "ADMIN"}

VARIABLES
  users,      \* the User table
  ledger,     \* the RefreshToken table
  now,        \* the clock, in seconds
  nextJti,    \* the next crypto.randomUUID(), never repeated
  jtiCap,     \* how many refresh tokens the server signs in this run
  skew,       \* where in the second this run reads the clock, in milliseconds
  repeats,    \* whether crypto.randomUUID() may repeat a value in this run
  issued,     \* tokens the server has returned to clients
  req,        \* the requests, by slot
  redeemed,   \* history: refresh tokens for which refresh answered 200
  redeemedTwice, \* history: refresh tokens for which refresh answered 200 twice
  revoked,    \* history: refresh tokens for which logout answered 200
  seqTok,     \* history: the refresh token of the login that just completed
  orders,     \* the Order table
  review,     \* the Review table: likeCount by review id
  reviewLike, \* the ReviewLike table
  categories, \* the Category table
  cache,      \* the store of the shared InMemoryCache, by key
  catVer,     \* history: how many category writes the datastore has committed
  acked       \* history: catVer as of the last category write that answered success

vars == <<users, ledger, now, nextJti, jtiCap, skew, repeats, issued, req, redeemed, redeemedTwice,
          revoked, seqTok, orders, review, reviewLike, categories, cache, catVer, acked>>

\* The tables and the cache of the review and category routes.
Shelf == <<review, reviewLike, categories, cache, catVer, acked>>

\* What the review and category routes leave alone.
AuthVars == <<users, ledger, now, nextJti, issued, redeemed, redeemedTwice, revoked, seqTok, orders>>

Procs == DOMAIN req

\* Date.now() in milliseconds.
DateNow == now * MsPerSec + skew

\* The issue time jwt.sign stamps: Date.now() in whole seconds.
Iat == DateNow \div MsPerSec

\* The token is signed and its exp lies ahead of the clock.
Live(tok) == tok.form = "signed" /\ tok.exp * MsPerSec > DateNow

\* prisma.user.findUnique
FindUserById(id) ==
  IF \E u \in users : u.id = id THEN CHOOSE u \in users : u.id = id ELSE NoUser

\* prisma.order.findUnique({ where: { id } })
FindOrder(id) ==
  IF \E o \in orders : o.id = id THEN CHOOSE o \in orders : o.id = id ELSE NoOrder

FindUserByEmail(email) ==
  IF \E u \in users : u.email = email THEN CHOOSE u \in users : u.email = email ELSE NoUser

NoRow == [userId |-> 0, tokenHash |-> <<>>, expiresAt |-> 0]

\* prisma.refreshToken.findUnique({ where: { tokenHash } })
FindRow(h) ==
  IF \E r \in ledger : r.tokenHash = h THEN CHOOSE r \in ledger : r.tokenHash = h
  ELSE NoRow

\* prisma.refreshToken.delete(...).catch(() => undefined) and deleteMany
DeleteRow_Noop(h) == ledger

DeleteRow(h) == { r \in ledger : r.tokenHash # h }

\* crypto.randomUUID(): a value it has not returned before, or, in a run
\* that lets it repeat, one of those it has returned.
randomUUID == IF repeats THEN 1..nextJti ELSE {nextJti}

Free(p) == req[p].pc = "idle"
OthersFree(p) == \A q \in Procs \ {p} : Free(q)
Done(p) == req[p].pc = "done"

\* A response is on its way out of some slot.
Responding == \E q \in Procs : Done(q)

\* What a client can put in a request: tokens it was given, forged ones,
\* junk, and foreign signed tokens.
Presentable == issued \cup Forged \cup Crafted \cup {MalformedTok}

\* res.status(status).json(...), sent from the step the request is at.
Respond(r, status, code) ==
  [r EXCEPT !.pc = "done", !.at = r.pc, !.nresp = @ + 1, !.status = status, !.code = code,
            !.newTok = NoTok, !.newAccess = NoTok]

InitStore ==
  /\ users = SeedUsers
  /\ ledger = {}
  /\ now = 0
  /\ nextJti = 1
  /\ issued = {}
  /\ redeemed = {}
  /\ redeemedTwice = {}
  /\ revoked = {}
  /\ seqTok = NoTok
  /\ orders = SeedOrders
  /\ review = SeedReviews
  /\ reviewLike = SeedLikes
  /\ categories = {}
  /\ cache = [k \in CacheKeys |-> NoEntry]
  /\ catVer = 0
  /\ acked = 0

Init ==
  /\ InitStore
  /\ jtiCap = MaxJti
  /\ skew = MsPerSec \div 2
  /\ repeats = FALSE
  /\ req = [p \in Serial |-> Idle]

InitRace ==
  /\ InitStore
  /\ jtiCap = RaceJti
  /\ skew = MsPerSec \div 2
  /\ repeats = FALSE
  /\ req = [p \in 1..RaceProcs |-> Idle]

Tick ==
  /\ ~Responding
  /\ now < MaxTime
  /\ now' = now + 1
  /\ UNCHANGED <<users, ledger, nextJti, jtiCap, skew, repeats, issued, req, redeemed, redeemedTwice,
                 revoked, seqTok, orders, review, reviewLike, categories, cache, catVer, acked>>

\* The response leaves and the slot is free again.  Nothing else happens
\* between a response being written and its slot being freed.
Deliver(p) ==
  /\ Done(p)
  /\ req' = [req EXCEPT ![p] = Idle]
  /\ UNCHANGED <<users, ledger, now, nextJti, jtiCap, skew, repeats, issued, redeemed, redeemedTwice,
                 revoked, seqTok, orders, review, reviewLike, categories, cache, catVer, acked>>

\* A request enters the first free slot.  Every request that starts ends
\* the "nothing in between" window of the others.
StartReq(p, r) ==
  /\ ~Responding
  /\ Free(p) /\ \A q \in Procs : q < p => ~Free(q)
  /\ req' = [q \in Procs |-> IF q = p THEN r ELSE [req[q] EXCEPT !.seq = FALSE]]
  /\ seqTok' = NoTok
  /\ UNCHANGED <<jtiCap, skew, repeats, orders, review, reviewLike, categories, cache, catVer, acked>>

\* The request in slot p moves on.
Move(p, r) ==
  /\ ~Responding
  /\ req' = [req EXCEPT ![p] = r]
  /\ UNCHANGED <<jtiCap, skew, repeats>>

\* ... in a route that does not touch the Order table.
Step(p, r) == Move(p, r) /\ UNCHANGED <<orders, review, reviewLike, categories, cache, catVer, acked>>

\* ... in an order route.
OrderMove(p, r) == Move(p, r) /\ UNCHANGED Shelf

\* ... in a review or category route.
ShelfMove(p, r) == Move(p, r) /\ UNCHANGED AuthVars

\* ---------------------------------------------------------- POST /auth/login
\* findUnique by email, verifyPassword, then both tokens are signed.  The
\* account status is not looked at: login answers INACTIVE accounts too.
LoginFind(p, email, password) ==
  LET user == FindUserByEmail(email)
      r0 == [Idle EXCEPT !.kind = "login", !.pc = "loginFind",
                         !.email = email, !.password = password]
  IN
  /\ nextJti <= jtiCap
  /\ IF user = NoUser \/ ~verifyPassword(password, user.passwordHash)
       THEN /\ StartReq(p, Respond(r0, 401, "UNAUTHORIZED"))
            /\ UNCHANGED nextJti
       ELSE /\ \E jti \in randomUUID :
                 StartReq(p, [r0 EXCEPT !.pc = "loginPersist", !.user = Summary(user),
                                !.newAccess = signAccessToken(user.id, user.role, Iat),
                                !.newTok = signRefreshToken(user.id, user.role, jti, Iat)])
            /\ nextJti' = nextJti + 1
  /\ UNCHANGED <<users, ledger, now, issued, redeemed, redeemedTwice, revoked>>

\* persistRefreshToken: the row prisma.refreshToken.create writes.
PersistRow_FirstUser(userId, tok) ==
  [userId |-> 1, tokenHash |-> hashToken(tok),
   expiresAt |-> IF getJwtExpirationDate(tok) # 0 THEN getJwtExpirationDate(tok)
                 ELSE DateNow + 7 * 24 * 60 * 60 * 1000]

PersistRow(userId, tok) ==
  [userId |-> userId, tokenHash |-> hashToken(tok),
   expiresAt |-> IF getJwtExpirationDate(tok) # 0 THEN getJwtExpirationDate(tok)
                 ELSE DateNow + 7 * 24 * 60 * 60 * 1000]

\* The unique index on token_hash: create throws into the route's catch.
PersistFails_Never(tok) == FALSE

PersistFails(tok) == \E r \in ledger : r.tokenHash = hashToken(tok)

LoginPersist(p) ==
  LET r == req[p] IN
  /\ r.kind = "login" /\ r.pc = "loginPersist"
  /\ IF PersistFails(r.newTok)
       THEN /\ Step(p, Respond(r, 500, "INTERNAL_SERVER_ERROR"))
            /\ UNCHANGED <<ledger, issued, seqTok>>
       ELSE /\ ledger' = ledger \cup {PersistRow(r.user.id, r.newTok)}
            /\ issued' = issued \cup {r.newAccess, r.newTok}
            /\ Step(p, [Respond(r, 200, "OK") EXCEPT !.data = r.user])
            /\ seqTok' = IF OthersFree(p) THEN r.newTok ELSE NoTok
  /\ UNCHANGED <<users, now, nextJti, redeemed, redeemedTwice, revoked>>

\* -------------------------------------------------------- POST /auth/refresh
\* refreshSchema, jwt.verify, the type check and the subject check: the
\* synchronous part before the ledger lookup is awaited.
RefreshVerify_OneCode(r0, tok, nowMs) ==
  IF tok.form = "empty" THEN Respond(r0, 422, "VALIDATION_FAILED")
  ELSE IF jwtVerify(tok, nowMs) # "ok" THEN Respond(r0, 401, "UNAUTHORIZED")
  ELSE IF tok.type # "refresh" THEN Respond(r0, 401, "UNAUTHORIZED")
  ELSE IF tok.sub = 0 THEN Respond(r0, 401, "UNAUTHORIZED")
  ELSE [r0 EXCEPT !.pc = "lookup"]

RefreshVerify(r0, tok, nowMs) ==
  IF tok.form = "empty" THEN Respond(r0, 422, "VALIDATION_FAILED")
  ELSE IF jwtVerify(tok, nowMs) = "expired" THEN Respond(r0, 401, "TOKEN_EXPIRED")
  ELSE IF jwtVerify(tok, nowMs) = "invalid" THEN Respond(r0, 401, "UNAUTHORIZED")
  ELSE IF tok.type # "refresh" THEN Respond(r0, 401, "UNAUTHORIZED")
  ELSE IF tok.sub = 0 THEN Respond(r0, 401, "UNAUTHORIZED")
  ELSE [r0 EXCEPT !.pc = "lookup"]

RefreshStart(p, tok) ==
  LET r0 == [Idle EXCEPT !.kind = "refresh", !.pc = "start", !.tok = tok,
                         !.live = Live(tok),
                         !.seq = (tok = seqTok /\ OthersFree(p)),
                         !.afterOk = (tok \in redeemed),
                         !.afterLogout = (tok \in revoked)]
  IN
  /\ StartReq(p, RefreshVerify(r0, tok, DateNow))
  /\ UNCHANGED <<users, ledger, now, nextJti, issued, redeemed, redeemedTwice, revoked>>

\* findUnique by tokenHash, the owner check and the row's own expiry.
RefreshLookup(p) ==
  LET r == req[p]
      stored == FindRow(hashToken(r.tok))
  IN
  /\ r.kind = "refresh" /\ r.pc = "lookup"
  /\ Step(p,
       IF stored = NoRow \/ stored.userId # r.tok.sub THEN Respond(r, 401, "UNAUTHORIZED")
       ELSE IF stored.expiresAt < DateNow THEN [r EXCEPT !.pc = "delExpired"]
       ELSE [r EXCEPT !.pc = "findUser"])
  /\ UNCHANGED <<users, ledger, now, nextJti, issued, redeemed, redeemedTwice, revoked, seqTok>>

\* findUnique of the owner and the status gate.
RefreshFindUser_Cleanup(p) ==
  LET r == req[p]
      user == FindUserById(r.tok.sub)
  IN
  /\ r.kind = "refresh" /\ r.pc = "findUser"
  /\ Step(p,
       IF user = NoUser THEN [r EXCEPT !.pc = "delGone"]
       ELSE IF user.status # "ACTIVE"
         THEN Respond(r, 403, "USER_INACTIVE")
       ELSE [r EXCEPT !.pc = "rotate", !.user = Summary(user)])
  /\ ledger' = IF user # NoUser /\ user.status # "ACTIVE" THEN DeleteRow(hashToken(r.tok))
               ELSE ledger
  /\ UNCHANGED <<users, now, nextJti, issued, redeemed, redeemedTwice, revoked, seqTok>>

RefreshFindUser(p) ==
  LET r == req[p]
      user == FindUserById(r.tok.sub)
  IN
  /\ r.kind = "refresh" /\ r.pc = "findUser"
  /\ Step(p,
       IF user = NoUser THEN [r EXCEPT !.pc = "delGone"]
       ELSE IF user.status # "ACTIVE"
         THEN Respond(r, 403, "USER_INACTIVE")
       ELSE [r EXCEPT !.pc = "rotate", !.user = Summary(user)])
  /\ UNCHANGED <<users, ledger, now, nextJti, issued, redeemed, redeemedTwice, revoked, seqTok>>

\* prisma.refreshToken.delete({ where: { tokenHash } }).catch(() => undefined)
\* at its three call sites, each with the code that follows it: the expired
\* row (401), the vanished owner (404), and rotation, where the new pair is
\* signed next.
RefreshDelete_Strict(p) ==
  LET r == req[p] IN
  /\ r.kind = "refresh" /\ r.pc \in {"delExpired", "delGone", "rotate"}
  /\ r.pc = "rotate" => nextJti <= jtiCap
  /\ ledger' = DeleteRow(hashToken(r.tok))
  /\ \E jti \in randomUUID :
       Step(p,
         IF FindRow(hashToken(r.tok)) = NoRow THEN Respond(r, 500, "INTERNAL_SERVER_ERROR")
         ELSE IF r.pc = "delExpired" THEN Respond(r, 401, "TOKEN_EXPIRED")
         ELSE IF r.pc = "delGone" THEN Respond(r, 404, "USER_NOT_FOUND")
         ELSE [r EXCEPT !.pc = "persist",
                        !.newAccess = signAccessToken(r.user.id, r.user.role, Iat),
                        !.newTok = signRefreshToken(r.user.id, r.user.role, jti, Iat)])
  /\ nextJti' = IF r.pc = "rotate" THEN nextJti + 1 ELSE nextJti
  /\ UNCHANGED <<users, now, issued, redeemed, redeemedTwice, revoked, seqTok>>

RefreshDelete(p) ==
  LET r == req[p] IN
  /\ r.kind = "refresh" /\ r.pc \in {"delExpired", "delGone", "rotate"}
  /\ r.pc = "rotate" => nextJti <= jtiCap
  /\ ledger' = DeleteRow(hashToken(r.tok))
  /\ \E jti \in randomUUID :
       Step(p,
         IF r.pc = "delExpired" THEN Respond(r, 401, "TOKEN_EXPIRED")
         ELSE IF r.pc = "delGone" THEN Respond(r, 404, "USER_NOT_FOUND")
         ELSE [r EXCEPT !.pc = "persist",
                        !.newAccess = signAccessToken(r.user.id, r.user.role, Iat),
                        !.newTok = signRefreshToken(r.user.id, r.user.role, jti, Iat)])
  /\ nextJti' = IF r.pc = "rotate" THEN nextJti + 1 ELSE nextJti
  /\ UNCHANGED <<users, now, issued, redeemed, redeemedTwice, revoked, seqTok>>

\* persistRefreshToken for the new refresh token, then the 200.
RefreshPersist(p) ==
  LET r == req[p] IN
  /\ r.kind = "refresh" /\ r.pc = "persist"
  /\ IF PersistFails(r.newTok)
       THEN /\ Step(p, Respond(r, 500, "INTERNAL_SERVER_ERROR"))
            /\ UNCHANGED <<ledger, issued, redeemed, redeemedTwice>>
       ELSE /\ ledger' = ledger \cup {PersistRow(r.user.id, r.newTok)}
            /\ issued' = issued \cup {r.newAccess, r.newTok}
            /\ redeemed' = redeemed \cup {r.tok}
            /\ redeemedTwice' = IF r.tok \in redeemed THEN redeemedTwice \cup {r.tok}
                                ELSE redeemedTwice
            /\ Step(p, [Respond(r, 200, "OK") EXCEPT !.data = r.user])
  /\ UNCHANGED <<users, now, nextJti, revoked, seqTok>>

\* --------------------------------------------------------- POST /auth/logout
\* logoutSchema, jwt.verify and the type check.
LogoutVerify_NoType(r0, tok, nowMs) ==
  IF tok.form = "empty" THEN Respond(r0, 422, "VALIDATION_FAILED")
  ELSE IF jwtVerify(tok, nowMs) = "expired" THEN Respond(r0, 401, "TOKEN_EXPIRED")
  ELSE IF jwtVerify(tok, nowMs) = "invalid" THEN Respond(r0, 401, "UNAUTHORIZED")
  ELSE [r0 EXCEPT !.pc = "logoutDel"]

LogoutVerify(r0, tok, nowMs) ==
  IF tok.form = "empty" THEN Respond(r0, 422, "VALIDATION_FAILED")
  ELSE IF jwtVerify(tok, nowMs) = "expired" THEN Respond(r0, 401, "TOKEN_EXPIRED")
  ELSE IF jwtVerify(tok, nowMs) = "invalid" THEN Respond(r0, 401, "UNAUTHORIZED")
  ELSE IF tok.type # "refresh" THEN Respond(r0, 401, "UNAUTHORIZED")
  ELSE [r0 EXCEPT !.pc = "logoutDel"]

LogoutStart(p, tok) ==
  LET r0 == [Idle EXCEPT !.kind = "logout", !.pc = "start", !.tok = tok,
                         !.live = Live(tok),
                         !.afterOk = (tok \in redeemed),
                         !.afterLogout = (tok \in revoked)]
  IN
  /\ StartReq(p, LogoutVerify(r0, tok, DateNow))
  /\ UNCHANGED <<users, ledger, now, nextJti, issued, redeemed, redeemedTwice, revoked>>

\* prisma.refreshToken.deleteMany({ where: { tokenHash } }), then the 200.
LogoutDelete_Strict(p) ==
  LET r == req[p] IN
  /\ r.kind = "logout" /\ r.pc = "logoutDel"
  /\ ledger' = DeleteRow(hashToken(r.tok))
  /\ IF FindRow(hashToken(r.tok)) = NoRow
       THEN /\ Step(p, Respond(r, 500, "INTERNAL_SERVER_ERROR"))
            /\ UNCHANGED revoked
       ELSE /\ Step(p, Respond(r, 200, "OK"))
            /\ revoked' = revoked \cup {r.tok}
  /\ UNCHANGED <<users, now, nextJti, issued, redeemed, redeemedTwice, seqTok>>

LogoutDelete_AllSessions(p) ==
  LET r == req[p] IN
  /\ r.kind = "logout" /\ r.pc = "logoutDel"
  /\ ledger' = { row \in ledger : row.userId # r.tok.sub }
  /\ revoked' = revoked \cup {r.tok}
  /\ Step(p, Respond(r, 200, "OK"))
  /\ UNCHANGED <<users, now, nextJti, issued, redeemed, redeemedTwice, seqTok>>

LogoutDelete(p) ==
  LET r == req[p] IN
  /\ r.kind = "logout" /\ r.pc = "logoutDel"
  /\ ledger' = DeleteRow(hashToken(r.tok))
  /\ revoked' = revoked \cup {r.tok}
  /\ Step(p, Respond(r, 200, "OK"))
  /\ UNCHANGED <<users, now, nextJti, issued, redeemed, redeemedTwice, seqTok>>

\* ------------------------------------------------ requireAuth, requireAdmin
\* requireAuth up to the principal lookup: extractToken, jwt.verify and the
\* subject check.
GateStart(p, kind, form, t) ==
  LET token == extractToken(Header(form, t))
      r0 == [Idle EXCEPT !.kind = kind, !.pc = "start", !.tok = token, !.hdr = form,
                         !.live = Live(token),
                         !.inactiveAtStart = (FindUserById(token.sub).status = "INACTIVE")]
      v == jwtVerify(token, DateNow)
  IN
  /\ StartReq(p,
       IF token = NoTok THEN Respond(r0, 401, "UNAUTHORIZED")
       ELSE IF v = "expired" THEN Respond(r0, 401, "TOKEN_EXPIRED")
       ELSE IF v = "invalid" THEN Respond(r0, 401, "UNAUTHORIZED")
       ELSE IF token.sub = 0 THEN Respond(r0, 401, "UNAUTHORIZED")
       ELSE [r0 EXCEPT !.pc = "gateFind"])
  /\ UNCHANGED <<users, ledger, now, nextJti, issued, redeemed, redeemedTwice, revoked>>

\* The handlers of the order routes up to their first datastore call:
\* Number(req.params.id) must be a positive integer (POST /orders has no id).
OrderHandler(r, id) ==
  LET r1 == [r EXCEPT !.ran = TRUE, !.target = id] IN
  IF r.kind = "orderCreate" THEN [r1 EXCEPT !.pc = "orderBook"]
  ELSE IF id <= 0 THEN Respond(r1, 400, "BAD_REQUEST")
  ELSE IF r.kind = "orderStatus" THEN [r1 EXCEPT !.pc = "orderUpdate"]
  ELSE [r1 EXCEPT !.pc = "orderFind"]

\* The handlers of the like routes up to their first datastore call:
\* Number(req.params.reviewId) must be a positive integer.
LikeHandler(r, id) ==
  LET r1 == [r EXCEPT !.ran = TRUE, !.target = id] IN
  IF id <= 0 THEN Respond(r1, 400, "BAD_REQUEST")
  ELSE IF r.kind = "like" THEN [r1 EXCEPT !.pc = "likeFind"]
  ELSE [r1 EXCEPT !.pc = "unlikeTx"]

\* The handlers of the category writes up to their first datastore call:
\* parseCategoryId for the routes with an id; the body is a valid one.
CatHandler(r, id) ==
  LET r1 == [r EXCEPT !.ran = TRUE, !.target = id] IN
  IF r.kind = "catCreate" THEN [r1 EXCEPT !.pc = "catCreate"]
  ELSE IF id <= 0 THEN Respond(r1, 400, "BAD_REQUEST")
  ELSE IF r.kind = "catUpdate" THEN [r1 EXCEPT !.pc = "catUpdate"]
  ELSE [r1 EXCEPT !.pc = "catFind"]

\* The route handler, entered through next() with req.user attached, up to
\* its first datastore call.  target is req.params.id of the route.
Handler_NoSelfCheck(r, target) ==
  IF r.kind = "me"
    THEN [Respond([r EXCEPT !.ran = TRUE], 200, "OK") EXCEPT !.data = r.user]
  ELSE IF r.kind \in OrderKinds THEN OrderHandler(r, target)
  ELSE IF r.kind \in LikeKinds THEN LikeHandler(r, target)
  ELSE IF r.kind \in CatKinds THEN CatHandler(r, target)
  ELSE IF r.kind \in RoleKinds
    THEN [r EXCEPT !.ran = TRUE, !.pc = "roleUpdate", !.target = target]
  ELSE [r EXCEPT !.ran = TRUE, !.pc = "update", !.target = target]

Handler(r, target) ==
  IF r.kind = "me"
    THEN [Respond([r EXCEPT !.ran = TRUE], 200, "OK") EXCEPT !.data = r.user]
  ELSE IF r.kind \in OrderKinds THEN OrderHandler(r, target)
  ELSE IF r.kind \in LikeKinds THEN LikeHandler(r, target)
  ELSE IF r.kind \in CatKinds THEN CatHandler(r, target)
  ELSE IF r.kind \in RoleKinds
    THEN [r EXCEPT !.ran = TRUE, !.pc = "roleUpdate", !.target = target]
  ELSE IF r.user.id = target
    THEN Respond([r EXCEPT !.ran = TRUE, !.target = target], 403, "FORBIDDEN")
  ELSE [r EXCEPT !.ran = TRUE, !.pc = "update", !.target = target]

\* The callback requireAdmin passes to requireAuth as next.
AdminNext_NoRoleCheck(r, target) == Handler(r, target)

AdminNext(r, target) ==
  IF r.user = NoCtx \/ r.user.role # "ADMIN" THEN Respond(r, 403, "FORBIDDEN")
  ELSE Handler(r, target)

\* requireAuth after the principal lookup: existence, the status gate,
\* req.user, next().
GateCheck_NoStatus(r, user, target) ==
  IF user = NoUser THEN Respond(r, 404, "USER_NOT_FOUND")
  ELSE IF r.kind \in AdminKinds THEN AdminNext([r EXCEPT !.user = Summary(user)], target)
  ELSE Handler([r EXCEPT !.user = Summary(user)], target)

GateCheck_Ledger(r, user, target) ==
  IF user = NoUser THEN Respond(r, 404, "USER_NOT_FOUND")
  ELSE IF user.status # "ACTIVE" THEN Respond(r, 403, "USER_INACTIVE")
  ELSE IF ~ \E row \in ledger : row.userId = user.id THEN Respond(r, 401, "UNAUTHORIZED")
  ELSE IF r.kind \in AdminKinds THEN AdminNext([r EXCEPT !.user = Summary(user)], target)
  ELSE Handler([r EXCEPT !.user = Summary(user)], target)

GateCheck_TokenRole(r, user, target) ==
  LET ctx == [Summary(user) EXCEPT !.role = r.tok.role] IN
  IF user = NoUser THEN Respond(r, 404, "USER_NOT_FOUND")
  ELSE IF user.status # "ACTIVE" THEN Respond(r, 403, "USER_INACTIVE")
  ELSE IF r.kind \in AdminKinds \cup OrderAdminKinds \cup RoleKinds
    THEN AdminNext([r EXCEPT !.user = ctx], target)
  ELSE Handler([r EXCEPT !.user = ctx], target)

GateCheck(r, user, target) ==
  IF user = NoUser THEN Respond(r, 404, "USER_NOT_FOUND")
  ELSE IF user.status # "ACTIVE" THEN Respond(r, 403, "USER_INACTIVE")
  ELSE IF r.kind \in AdminKinds \cup OrderAdminKinds \cup RoleKinds \cup CatKinds
    THEN AdminNext([r EXCEPT !.user = Summary(user)], target)
  ELSE Handler([r EXCEPT !.user = Summary(user)], target)

\* prisma.user.findUnique({ where: { id: userId } }) of requireAuth and
\* what follows it.
GateFind(p, target) ==
  LET r == req[p] IN
  /\ r.kind \in GateKinds \cup OrderKinds \cup RoleKinds \cup LikeKinds \cup CatKinds
  /\ r.pc = "gateFind"
  /\ r.kind \in {"me", "orderCreate", "catCreate"} => target = 0
  /\ r.kind \in AdminKinds \cup RoleKinds => target # 0
  /\ Step(p, GateCheck(r, FindUserById(r.tok.sub), target))
  /\ UNCHANGED <<users, ledger, now, nextJti, issued, redeemed, redeemedTwice, revoked, seqTok>>

\* PATCH /admin/users/:id/deactivate: prisma.user.update({ where: { id },
\* data: { status: 'INACTIVE' } }); a missing row makes update throw, which
\* the route answers with 404.
AdminUpdate(p) ==
  LET r == req[p]
      old == FindUserById(r.target)
      new == [old EXCEPT !.status = "INACTIVE"]
  IN
  /\ r.kind \in AdminKinds /\ r.pc = "update"
  /\ IF old = NoUser
       THEN /\ Step(p, Respond(r, 404, "USER_NOT_FOUND"))
            /\ UNCHANGED users
       ELSE /\ users' = (users \ {old}) \cup {new}
            /\ Step(p, [Respond(r, 200, "OK") EXCEPT !.data = Summary(new)])
  /\ UNCHANGED <<ledger, now, nextJti, issued, redeemed, redeemedTwice, revoked, seqTok>>

\* PATCH /admin/users/:id/role: prisma.user.update({ where: { id }, data:
\* { role } }); a missing row makes update throw, which the route answers
\* with 404.  role is the body's role, one of the enum's two values.
RoleUpdate(p, role) ==
  LET r == req[p]
      old == FindUserById(r.target)
      new == [old EXCEPT !.role = role]
  IN
  /\ r.kind \in RoleKinds /\ r.pc = "roleUpdate"
  /\ IF old = NoUser
       THEN /\ Step(p, Respond(r, 404, "USER_NOT_FOUND"))
            /\ UNCHANGED users
       ELSE /\ users' = (users \ {old}) \cup {new}
            /\ Step(p, [Respond(r, 200, "OK") EXCEPT !.data = Summary(new)])
  /\ UNCHANGED <<ledger, now, nextJti, issued, redeemed, redeemedTwice, revoked, seqTok>>

\* The headers a client can send to a gated route.
GateInputs ==
  ({"bearer"} \X Presentable) \cup ({"trailing", "basic", "dblspace"} \X issued)
    \cup ({"absent", "bare"} \X {NoTok})

Next ==
  \/ Tick
  \/ \E p \in Procs : Deliver(p)
  \/ \E p \in Procs, e \in Emails, pw \in Passwords : LoginFind(p, e, pw)
  \/ \E p \in Procs : LoginPersist(p)
  \/ \E p \in Procs, t \in Presentable \cup {EmptyTok} : RefreshStart(p, t)
  \/ \E p \in Procs : RefreshLookup(p)
  \/ \E p \in Procs : RefreshFindUser(p)
  \/ \E p \in Procs : RefreshDelete(p)
  \/ \E p \in Procs : RefreshPersist(p)
  \/ \E p \in Procs, t \in Presentable \cup {EmptyTok} : LogoutStart(p, t)
  \/ \E p \in Procs : LogoutDelete(p)
  \/ \E p \in Procs, k \in GateKinds, i \in GateInputs : GateStart(p, k, i[1], i[2])
  \/ \E p \in Procs, g \in Targets \cup {0} : GateFind(p, g)
  \/ \E p \in Procs : AdminUpdate(p)

\* The refresh tokens the client has been given.
RaceTokens == {t \in issued : t.type = "refresh"}

\* The account logs in once (nextJti = 1); its refresh tokens are then
\* redeemed and revoked from every slot.
NextRace ==
  \/ \E p \in Procs : Deliver(p)
  \/ \E p \in Procs, e \in RaceEmails, pw \in Passwords : nextJti = 1 /\ LoginFind(p, e, pw)
  \/ \E p \in Procs : LoginPersist(p)
  \/ \E p \in Procs, t \in RaceTokens : RefreshStart(p, t)
  \/ \E p \in Procs : RefreshLookup(p)
  \/ \E p \in Procs : RefreshFindUser(p)
  \/ \E p \in Procs : RefreshDelete(p)
  \/ \E p \in Procs : RefreshPersist(p)
  \/ \E p \in Procs, t \in RaceTokens : LogoutStart(p, t)
  \/ \E p \in Procs : LogoutDelete(p)

\* Several logins of both seeded accounts, refresh and logout, one request
\* at a time, within the lifetime of the tokens.
InitSessions ==
  /\ InitStore
  /\ jtiCap = SessJti
  /\ skew = MsPerSec \div 2
  /\ repeats = FALSE
  /\ req = [p \in Serial |-> Idle]

NextSessions ==
  \/ \E p \in Procs : Deliver(p)
  \/ \E p \in Procs, e \in Emails, pw \in Passwords : LoginFind(p, e, pw)
  \/ \E p \in Procs : LoginPersist(p)
  \/ \E p \in Procs, t \in RaceTokens : RefreshStart(p, t)
  \/ \E p \in Procs : RefreshLookup(p)
  \/ \E p \in Procs : RefreshFindUser(p)
  \/ \E p \in Procs : RefreshDelete(p)
  \/ \E p \in Procs : RefreshPersist(p)
  \/ \E p \in Procs, t \in RaceTokens : LogoutStart(p, t)
  \/ \E p \in Procs : LogoutDelete(p)

\* Logins, /users/me and the admin routes on users, one request at a time,
\* within the lifetime of the tokens.
InitRole ==
  /\ InitStore
  /\ jtiCap = RoleJti
  /\ skew = MsPerSec \div 2
  /\ repeats = FALSE
  /\ req = [p \in Serial |-> Idle]

NextRole ==
  \/ \E p \in Procs : Deliver(p)
  \/ \E p \in Procs, e \in Emails, pw \in Passwords : LoginFind(p, e, pw)
  \/ \E p \in Procs : LoginPersist(p)
  \/ \E p \in Procs, k \in GateKinds \cup RoleKinds, t \in issued :
       GateStart(p, k, "bearer", t)
  \/ \E p \in Procs, t \in Targets \cup {0} : GateFind(p, t)
  \/ \E p \in Procs : AdminUpdate(p)
  \/ \E p \in Procs, role \in Roles : RoleUpdate(p, role)

\* ------------------------------------------------------------------ /orders
\* if (!order || order.userId !== user.id): the 404 of GET /orders/:id and
\* PATCH /orders/:id/cancel.
OrderVisible_AdminToo(order, user) ==
  order # NoOrder /\ (order.userId = user.id \/ user.role = "ADMIN")

OrderVisible(order, user) == order # NoOrder /\ order.userId = user.id

\* prisma.order.findUnique of GET /orders/:id and PATCH /orders/:id/cancel
\* and the checks that follow it.
OrderFind(p) ==
  LET r == req[p]
      order == FindOrder(r.target)
  IN
  /\ r.kind \in {"orderGet", "orderCancel"} /\ r.pc = "orderFind"
  /\ Step(p,
       IF ~OrderVisible(order, r.user) THEN Respond(r, 404, "RESOURCE_NOT_FOUND")
       ELSE IF r.kind = "orderGet" THEN [Respond(r, 200, "OK") EXCEPT !.order = order]
       ELSE IF order.status = "CANCELLED" THEN Respond(r, 409, "STATE_CONFLICT")
       ELSE [r EXCEPT !.pc = "orderCancel"])
  /\ UNCHANGED <<users, ledger, now, nextJti, issued, redeemed, redeemedTwice, revoked, seqTok>>

\* prisma.order.update({ where: { id }, data: { status: 'CANCELLED' } }) of
\* the cancel route; a missing row makes update throw into the catch (500).
OrderCancel(p) ==
  LET r == req[p]
      old == FindOrder(r.target)
      new == [old EXCEPT !.status = "CANCELLED"]
  IN
  /\ r.kind = "orderCancel" /\ r.pc = "orderCancel"
  /\ IF old = NoOrder
       THEN /\ OrderMove(p, Respond(r, 500, "INTERNAL_SERVER_ERROR"))
            /\ UNCHANGED orders
       ELSE /\ orders' = (orders \ {old}) \cup {new}
            /\ OrderMove(p, [Respond(r, 200, "OK") EXCEPT !.order = new])
  /\ UNCHANGED <<users, ledger, now, nextJti, issued, redeemed, redeemedTwice, revoked, seqTok>>

\* POST /orders: prisma.book.findFirst; found says whether the book exists.
OrderBook(p, found) ==
  LET r == req[p] IN
  /\ r.kind = "orderCreate" /\ r.pc = "orderBook"
  /\ Step(p, IF found THEN [r EXCEPT !.pc = "orderUser"]
              ELSE Respond(r, 404, "RESOURCE_NOT_FOUND"))
  /\ UNCHANGED <<users, ledger, now, nextJti, issued, redeemed, redeemedTwice, revoked, seqTok>>

\* POST /orders: prisma.user.findUnique({ where: { id: authUser.id } })
OrderUser(p) ==
  LET r == req[p] IN
  /\ r.kind = "orderCreate" /\ r.pc = "orderUser"
  /\ Step(p, IF FindUserById(r.user.id) = NoUser THEN Respond(r, 404, "USER_NOT_FOUND")
              ELSE [r EXCEPT !.pc = "orderInsert"])
  /\ UNCHANGED <<users, ledger, now, nextJti, issued, redeemed, redeemedTwice, revoked, seqTok>>

\* POST /orders: prisma.order.create; id is the table's auto-increment.
OrderInsert(p) ==
  LET r == req[p]
      new == [id |-> 1 + Cardinality(orders), userId |-> r.user.id, status |-> "PENDING"]
  IN
  /\ r.kind = "orderCreate" /\ r.pc = "orderInsert"
  /\ orders' = orders \cup {new}
  /\ OrderMove(p, [Respond(r, 201, "CREATED") EXCEPT !.order = new])
  /\ UNCHANGED <<users, ledger, now, nextJti, issued, redeemed, redeemedTwice, revoked, seqTok>>

\* PATCH /orders/:id/status (requireAdmin): prisma.order.update; a missing
\* row makes update throw, which the route answers with 404.
OrderUpdate(p, status) ==
  LET r == req[p]
      old == FindOrder(r.target)
      new == [old EXCEPT !.status = status]
  IN
  /\ r.kind = "orderStatus" /\ r.pc = "orderUpdate"
  /\ IF old = NoOrder
       THEN /\ OrderMove(p, Respond(r, 404, "RESOURCE_NOT_FOUND"))
            /\ UNCHANGED orders
       ELSE /\ orders' = (orders \ {old}) \cup {new}
            /\ OrderMove(p, [Respond(r, 200, "OK") EXCEPT !.order = new])
  /\ UNCHANGED <<users, ledger, now, nextJti, issued, redeemed, redeemedTwice, revoked, seqTok>>

\* Logins and the order routes, one request at a time, within the lifetime
\* of the tokens.
InitOrders ==
  /\ InitStore
  /\ jtiCap = OrderJti
  /\ skew = MsPerSec \div 2
  /\ repeats = FALSE
  /\ req = [p \in Serial |-> Idle]

NextOrders ==
  \/ \E p \in Procs : Deliver(p)
  \/ \E p \in Procs, e \in Emails, pw \in Passwords : LoginFind(p, e, pw)
  \/ \E p \in Procs : LoginPersist(p)
  \/ \E p \in Procs, k \in OrderKinds, t \in issued :
       /\ k = "orderCreate" => Cardinality(orders) < MaxOrders
       /\ GateStart(p, k, "bearer", t)
  \/ \E p \in Procs, id \in OrderIds : GateFind(p, id)
  \/ \E p \in Procs : OrderFind(p)
  \/ \E p \in Procs : OrderCancel(p)
  \/ \E p \in Procs, found \in BOOLEAN : OrderBook(p, found)
  \/ \E p \in Procs : OrderUser(p)
  \/ \E p \in Procs : OrderInsert(p)
  \/ \E p \in Procs, s \in OrderStatuses : OrderUpdate(p, s)

\* One login of user1, then cancel requests of that account, several in
\* flight at the same time; nothing but a cancel writes an order.
InitCancel ==
  /\ InitStore
  /\ jtiCap = 1
  /\ skew = MsPerSec \div 2
  /\ repeats = FALSE
  /\ req = [p \in 1..CancelProcs |-> Idle]

NextCancel ==
  \/ \E p \in Procs : Deliver(p)
  \/ \E p \in Procs, e \in RaceEmails, pw \in Passwords : LoginFind(p, e, pw)
  \/ \E p \in Procs : LoginPersist(p)
  \/ \E p \in Procs, t \in issued : GateStart(p, "orderCancel", "bearer", t)
  \/ \E p \in Procs, id \in OrderIds : GateFind(p, id)
  \/ \E p \in Procs : OrderFind(p)
  \/ \E p \in Procs : OrderCancel(p)

\* --------------------------------------------------------- POST /auth/signup
\* prisma.user.findUnique({ where: { email } }): 409 when the email is taken.
\* Otherwise hashPassword is awaited and the insert comes in a later step.
SignupFind(p, email, password, name) ==
  LET r0 == [Idle EXCEPT !.kind = "signup", !.pc = "signupFind",
                         !.email = email, !.password = password,
                         !.user = [NoCtx EXCEPT !.name = name]]
  IN
  /\ StartReq(p,
       IF FindUserByEmail(email) # NoUser THEN Respond(r0, 409, "DUPLICATE_RESOURCE")
       ELSE [r0 EXCEPT !.pc = "signupCreate"])
  /\ UNCHANGED <<users, ledger, now, nextJti, issued, redeemed, redeemedTwice, revoked>>

\* The row prisma.user.create inserts; id is the table's auto-increment.
NewUser(email, password, name) ==
  [id |-> 1 + Cardinality(users), email |-> email, name |-> name,
   passwordHash |-> hashPassword(password), role |-> "USER", status |-> "ACTIVE"]

\* prisma.user.create: the unique constraint on User.email makes it throw
\* when the email was inserted since the lookup; the route's catch answers
\* 500.  Otherwise the row is inserted and the answer is 201.
SignupCreate(p) ==
  LET r == req[p]
      u == NewUser(r.email, r.password, r.user.name)
  IN
  /\ r.kind = "signup" /\ r.pc = "signupCreate"
  /\ IF FindUserByEmail(r.email) # NoUser
       THEN /\ Step(p, Respond([r EXCEPT !.threw = TRUE], 500, "INTERNAL_SERVER_ERROR"))
            /\ UNCHANGED users
       ELSE /\ users' = users \cup {u}
            /\ Step(p, [Respond(r, 201, "CREATED") EXCEPT !.data = Summary(u),
                                                         !.user = Summary(u)])
  /\ UNCHANGED <<ledger, now, nextJti, issued, redeemed, redeemedTwice, revoked, seqTok>>

\* Signups only, several in flight at the same time.
InitSignup ==
  /\ InitStore
  /\ jtiCap = 0
  /\ skew = MsPerSec \div 2
  /\ repeats = FALSE
  /\ req = [p \in 1..SignupProcs |-> Idle]

NextSignup ==
  \/ \E p \in Procs : Deliver(p)
  \/ \E p \in Procs, e \in SignupEmails, pw \in Passwords, n \in SignupNames :
       SignupFind(p, e, pw, n)
  \/ \E p \in Procs : SignupCreate(p)

\* ------------------------------------------------------ datastore failures
\* prisma.user.findUnique of login rejects: the route's catch answers 500.
LoginThrows(p, email, password) ==
  LET r0 == [Idle EXCEPT !.kind = "login", !.pc = "loginFind",
                         !.email = email, !.password = password, !.threw = TRUE]
  IN
  /\ StartReq(p, Respond(r0, 500, "INTERNAL_SERVER_ERROR"))
  /\ UNCHANGED <<users, ledger, now, nextJti, issued, redeemed, redeemedTwice, revoked>>

\* An awaited datastore call of login, refresh or logout rejects where the
\* code has no .catch of its own: the route's catch answers 500.
DbThrows(p) ==
  LET r == req[p] IN
  /\ r.kind \in {"login", "refresh", "logout"}
  /\ r.pc \in {"loginPersist", "lookup", "findUser", "persist", "logoutDel"}
  /\ Step(p, Respond([r EXCEPT !.threw = TRUE], 500, "INTERNAL_SERVER_ERROR"))
  /\ UNCHANGED <<users, ledger, now, nextJti, issued, redeemed, redeemedTwice, revoked,
                 seqTok>>

\* prisma.refreshToken.delete of refresh rejects: .catch(() => undefined)
\* drops the error and the code after the call runs as after a delete.
RefreshDeleteThrows(p) ==
  LET r == [req[p] EXCEPT !.threw = TRUE] IN
  /\ r.kind = "refresh" /\ r.pc \in {"delExpired", "delGone", "rotate"}
  /\ r.pc = "rotate" => nextJti <= jtiCap
  /\ \E jti \in randomUUID :
       Step(p,
         IF r.pc = "delExpired" THEN Respond(r, 401, "TOKEN_EXPIRED")
         ELSE IF r.pc = "delGone" THEN Respond(r, 404, "USER_NOT_FOUND")
         ELSE [r EXCEPT !.pc = "persist",
                        !.newAccess = signAccessToken(r.user.id, r.user.role, Iat),
                        !.newTok = signRefreshToken(r.user.id, r.user.role, jti, Iat)])
  /\ nextJti' = IF r.pc = "rotate" THEN nextJti + 1 ELSE nextJti
  /\ UNCHANGED <<users, ledger, now, issued, redeemed, redeemedTwice, revoked, seqTok>>

\* One account, one request at a time, the clock running, and every
\* datastore call of login, refresh and logout free to reject.
InitFail ==
  /\ InitStore
  /\ jtiCap = FailJti
  /\ skew = MsPerSec \div 2
  /\ repeats = FALSE
  /\ req = [p \in Serial |-> Idle]

NextFail ==
  \/ Tick
  \/ \E p \in Procs : Deliver(p)
  \/ \E p \in Procs, e \in RaceEmails, pw \in Passwords : LoginFind(p, e, pw)
  \/ \E p \in Procs, e \in RaceEmails, pw \in Passwords : LoginThrows(p, e, pw)
  \/ \E p \in Procs : LoginPersist(p)
  \/ \E p \in Procs, t \in RaceTokens : RefreshStart(p, t)
  \/ \E p \in Procs : RefreshLookup(p)
  \/ \E p \in Procs : RefreshFindUser(p)
  \/ \E p \in Procs : RefreshDelete(p)
  \/ \E p \in Procs : RefreshDeleteThrows(p)
  \/ \E p \in Procs : RefreshPersist(p)
  \/ \E p \in Procs, t \in RaceTokens : LogoutStart(p, t)
  \/ \E p \in Procs : LogoutDelete(p)
  \/ \E p \in Procs : DbThrows(p)

\* One account, one request at a time, the clock read exactly on the second,
\* and randomUUID free to repeat: the corners of expiry and of the unique
\* index.
InitEdge ==
  /\ InitStore
  /\ jtiCap = EdgeJti
  /\ skew = 0
  /\ repeats = TRUE
  /\ req = [p \in Serial |-> Idle]

NextEdge ==
  \/ Tick
  \/ \E p \in Procs : Deliver(p)
  \/ \E p \in Procs, e \in RaceEmails, pw \in Passwords : LoginFind(p, e, pw)
  \/ \E p \in Procs : LoginPersist(p)
  \/ \E p \in Procs, t \in RaceTokens : RefreshStart(p, t)
  \/ \E p \in Procs : RefreshLookup(p)
  \/ \E p \in Procs : RefreshFindUser(p)
  \/ \E p \in Procs : RefreshDelete(p)
  \/ \E p \in Procs : RefreshPersist(p)

Spec == Init /\ [][Next]_vars
SpecEdge == InitEdge /\ [][NextEdge]_vars
SpecFail == InitFail /\ [][NextFail]_vars
SpecSignup == InitSignup /\ [][NextSignup]_vars
SpecOrders == InitOrders /\ [][NextOrders]_vars
SpecRole == InitRole /\ [][NextRole]_vars
SpecCancel == InitCancel /\ [][NextCancel]_vars
SpecSessions == InitSessions /\ [][NextSessions]_vars
SpecRace == InitRace /\ [][NextRace]_vars

\* ------------------------------------------------- /reviews/:reviewId/likes
\* POST: prisma.review.findUnique({ where: { id: reviewId } }); 404 when
\* there is no such review (no route of the model sets deletedAt).
LikeFind(p) ==
  LET r == req[p] IN
  /\ r.kind = "like" /\ r.pc = "likeFind"
  /\ ShelfMove(p, IF r.target \in DOMAIN review THEN [r EXCEPT !.pc = "likeTx"]
                  ELSE Respond(r, 404, "RESOURCE_NOT_FOUND"))
  /\ UNCHANGED Shelf

\* tx.reviewLike.findUnique({ where: { reviewId_userId } })
HasLike(reviewId, userId) ==
  \E l \in reviewLike : l.reviewId = reviewId /\ l.userId = userId

\* POST: the transaction.  Without a like row of the principal it creates
\* one and increments likeCount; with one it writes nothing.  201 either way.
LikeTx(p) ==
  LET r == req[p] IN
  /\ r.kind = "like" /\ r.pc = "likeTx"
  /\ IF HasLike(r.target, r.user.id)
       THEN UNCHANGED <<review, reviewLike>>
       ELSE /\ reviewLike' = reviewLike \cup {[reviewId |-> r.target, userId |-> r.user.id]}
            /\ review' = [review EXCEPT ![r.target].likeCount = @ + 1]
  /\ ShelfMove(p, Respond(r, 201, "CREATED"))
  /\ UNCHANGED <<categories, cache, catVer, acked>>

\* DELETE: the transaction.  Without a like row of the principal it returns;
\* with one it deletes the row and decrements likeCount.  204 either way.
UnlikeTx(p) ==
  LET r == req[p] IN
  /\ r.kind = "unlike" /\ r.pc = "unlikeTx"
  /\ IF HasLike(r.target, r.user.id)
       THEN /\ reviewLike' = reviewLike \ {[reviewId |-> r.target, userId |-> r.user.id]}
            /\ review' = [review EXCEPT ![r.target].likeCount = @ - 1]
       ELSE UNCHANGED <<review, reviewLike>>
  /\ ShelfMove(p, Respond(r, 204, "NO_CONTENT"))
  /\ UNCHANGED <<categories, cache, catVer, acked>>

\* Logins of both accounts, then likes and unlikes, one request at a time.
InitLikes ==
  /\ InitStore
  /\ jtiCap = LikeJti
  /\ skew = MsPerSec \div 2
  /\ repeats = FALSE
  /\ req = [p \in Serial |-> Idle]

NextLikes ==
  \/ \E p \in Procs : Deliver(p)
  \/ \E p \in Procs, e \in Emails, pw \in Passwords : LoginFind(p, e, pw)
  \/ \E p \in Procs : LoginPersist(p)
  \/ \E p \in Procs, k \in LikeKinds, t \in issued : GateStart(p, k, "bearer", t)
  \/ \E p \in Procs, id \in ReviewIds : GateFind(p, id)
  \/ \E p \in Procs : LikeFind(p)
  \/ \E p \in Procs : LikeTx(p)
  \/ \E p \in Procs : UnlikeTx(p)

SpecLikes == InitLikes /\ [][NextLikes]_vars

\* -------------------------------------------------------------- /categories
\* InMemoryCache.get: null for a key the Map does not hold and for an entry
\* whose expiresAt lies behind Date.now(); the value otherwise.
CacheHit(key) == cache[key].has /\ ~(cache[key].expiresAt < DateNow)

\* ... and the Map after the call: an expired entry is deleted.
CacheAfterGet(key) ==
  IF cache[key].has /\ cache[key].expiresAt < DateNow
    THEN [cache EXCEPT ![key] = NoEntry]
  ELSE cache

\* InMemoryCache.set
CacheSet(key, value, ttlMs) ==
  [cache EXCEPT ![key] = [has |-> TRUE, value |-> value, expiresAt |-> DateNow + ttlMs]]

\* InMemoryCache.invalidatePrefix: key.startsWith(prefix)
InvalidatePrefix(prefix) ==
  [k \in CacheKeys |-> IF k[1] = prefix THEN NoEntry ELSE cache[k]]

\* prisma.category.findUnique({ where: { id } })
HasCategory(id) == \E c \in categories : c.id = id

\* GET /categories arrives; the query carries keyword kw and nothing else.
ListStart(p, kw) ==
  /\ StartReq(p, [Idle EXCEPT !.kind = "catList", !.pc = "listGet", !.name = kw])
  /\ UNCHANGED <<users, ledger, now, nextJti, issued, redeemed, redeemedTwice, revoked>>

\* cache.get(cacheKey): a hit is the response.
ListGet(p) ==
  LET r == req[p]
      key == buildCacheKey(CATEGORY_CACHE_PREFIX, r.name)
  IN
  /\ r.kind = "catList" /\ r.pc = "listGet"
  /\ cache' = CacheAfterGet(key)
  /\ ShelfMove(p, IF CacheHit(key)
                    THEN [Respond(r, 200, "OK") EXCEPT !.list = cache[key].value]
                  ELSE [r EXCEPT !.pc = "listFind"])
  /\ UNCHANGED <<review, reviewLike, categories, catVer, acked>>

\* prisma.category.findMany({ where }) and count
ListFind(p) ==
  LET r == req[p]
      body == [items |-> { c \in categories : Matches(c, r.name) }, ver |-> catVer]
  IN
  /\ r.kind = "catList" /\ r.pc = "listFind"
  /\ ShelfMove(p, [r EXCEPT !.pc = "listSet", !.list = body])
  /\ UNCHANGED Shelf

\* cache.set(cacheKey, responseBody, CATEGORY_LIST_CACHE_TTL) and the response
ListSet(p) ==
  LET r == req[p]
      key == buildCacheKey(CATEGORY_CACHE_PREFIX, r.name)
  IN
  /\ r.kind = "catList" /\ r.pc = "listSet"
  /\ cache' = CacheSet(key, r.list, CATEGORY_LIST_CACHE_TTL)
  /\ ShelfMove(p, Respond(r, 200, "OK"))
  /\ UNCHANGED <<review, reviewLike, categories, catVer, acked>>

\* A category write has been committed by the datastore; the handler goes on
\* to the invalidation when its await resumes.
Committed(p, r, rows) ==
  /\ categories' = rows
  /\ catVer' = catVer + 1
  /\ ShelfMove(p, [r EXCEPT !.pc = "catInvalidate", !.ver = catVer + 1])
  /\ UNCHANGED <<review, reviewLike, cache, acked>>

\* handleWriteError and the catch blocks: the write did not happen.
CatFails(p, r, status, code) ==
  /\ ShelfMove(p, Respond(r, status, code))
  /\ UNCHANGED Shelf

\* POST /categories: prisma.category.create; the name is unique (P2002 is
\* answered 409), ids grow and are never reused.
CatCreate(p, name) ==
  LET r == req[p] IN
  /\ r.kind = "catCreate" /\ r.pc = "catCreate"
  /\ IF \E c \in categories : c.name = name
       THEN CatFails(p, r, 409, "DUPLICATE_RESOURCE")
       ELSE Committed(p, r, categories \cup {[id |-> catVer + 1, name |-> name]})

\* PATCH /categories/:id: prisma.category.update; a missing row throws and
\* is answered 500, a name another row has is answered 409.
CatUpdate(p, name) ==
  LET r == req[p]
      old == CHOOSE c \in categories : c.id = r.target
  IN
  /\ r.kind = "catUpdate" /\ r.pc = "catUpdate"
  /\ IF ~HasCategory(r.target)
       THEN CatFails(p, r, 500, "INTERNAL_SERVER_ERROR")
       ELSE IF \E c \in categories : c.name = name /\ c.id # r.target
         THEN CatFails(p, r, 409, "DUPLICATE_RESOURCE")
       ELSE Committed(p, r, (categories \ {old}) \cup {[old EXCEPT !.name = name]})

\* DELETE /categories/:id: prisma.category.findUnique
CatFind(p) ==
  LET r == req[p] IN
  /\ r.kind = "catDelete" /\ r.pc = "catFind"
  /\ ShelfMove(p, IF HasCategory(r.target) THEN [r EXCEPT !.pc = "catCount"]
                  ELSE Respond(r, 404, "RESOURCE_NOT_FOUND"))
  /\ UNCHANGED Shelf

\* DELETE /categories/:id: the counts of children and of books; no category
\* of the model has a parent or a book, so both are 0.
CatCount(p) ==
  LET r == req[p] IN
  /\ r.kind = "catDelete" /\ r.pc = "catCount"
  /\ ShelfMove(p, [r EXCEPT !.pc = "catDelete"])
  /\ UNCHANGED Shelf

\* DELETE /categories/:id: prisma.category.delete; a missing row throws and
\* is answered 500.
CatDelete(p) ==
  LET r == req[p] IN
  /\ r.kind = "catDelete" /\ r.pc = "catDelete"
  /\ IF ~HasCategory(r.target)
       THEN CatFails(p, r, 500, "INTERNAL_SERVER_ERROR")
       ELSE Committed(p, r, { c \in categories : c.id # r.target })

\* cache.invalidatePrefix(CATEGORY_CACHE_PREFIX) and the success response of
\* the three writes.
CatInvalidate(p) ==
  LET r == req[p] IN
  /\ r.kind \in CatKinds /\ r.pc = "catInvalidate"
  /\ cache' = InvalidatePrefix(CATEGORY_CACHE_PREFIX)
  /\ acked' = IF r.ver > acked THEN r.ver ELSE acked
  /\ ShelfMove(p, IF r.kind = "catCreate" THEN Respond(r, 201, "CREATED")
                  ELSE Respond(r, 200, "OK"))
  /\ UNCHANGED <<review, reviewLike, categories, catVer>>

\* One login of the admin, then category writes and list requests, several
\* in flight at the same time, while the clock runs.
InitCache ==
  /\ InitStore
  /\ jtiCap = 1
  /\ skew = MsPerSec \div 2
  /\ repeats = FALSE
  /\ req = [p \in 1..CacheProcs |-> Idle]

NextCache ==
  \/ Tick
  \/ \E p \in Procs : Deliver(p)
  \/ \E p \in Procs : LoginFind(p, "admin@example.com", "P@ssw0rd!")
  \/ \E p \in Procs : LoginPersist(p)
  \/ \E p \in Procs, k \in CatKinds, t \in issued :
       catVer + Cardinality({q \in Procs : req[q].kind \in CatKinds}) < MaxCatWrites
         /\ GateStart(p, k, "bearer", t)
  \/ \E p \in Procs, id \in CatIds : GateFind(p, id)
  \/ \E p \in Procs, kw \in CatKeywords : ListStart(p, kw)
  \/ \E p \in Procs : ListGet(p)
  \/ \E p \in Procs : ListFind(p)
  \/ \E p \in Procs : ListSet(p)
  \/ \E p \in Procs, name \in CatNames : CatCreate(p, name)
  \/ \E p \in Procs, name \in CatNames : CatUpdate(p, name)
  \/ \E p \in Procs : CatFind(p)
  \/ \E p \in Procs : CatCount(p)
  \/ \E p \in Procs : CatDelete(p)
  \/ \E p \in Procs : CatInvalidate(p)

SpecCache == InitCache /\ [][NextCache]_vars
\* ================================================================== claims
\* The request in slot p sends its response in this step.
Answers(p) == req[p].pc # "done" /\ req'[p].pc = "done"

\* The handler behind the gate is entered by the request in slot p in this step.
Enters(p) == ~req[p].ran /\ req'[p].ran

\* C1, as first stated: a principal logs in and, with nothing in between,
\* redeems the refresh token it was given while that token is unexpired;
\* the redemption is answered 200, and every later redemption of the same
\* token is answered 401.
C1_AnyPrincipal ==
  \A p \in Procs : (Done(p) /\ req[p].kind = "refresh") =>
    /\ (req[p].seq /\ Live(req[p].tok)) => req[p].status = 200
    /\ req[p].afterOk => req[p].status = 401

\* C1, amended: a principal whose status is ACTIVE logs in and, with nothing
\* in between, redeems the refresh token it was given while that token is
\* unexpired; the redemption is answered 200, and every later redemption of
\* the same token is answered 401.  (Login does not look at the status: an
\* INACTIVE principal is given a token whose redemption is answered 403.)
C1_SequentialSingleUse ==
  \A p \in Procs : (Done(p) /\ req[p].kind = "refresh") =>
    /\ (req[p].seq /\ Live(req[p].tok)
          /\ FindUserById(req[p].tok.sub).status = "ACTIVE") => req[p].status = 200
    /\ req[p].afterOk => req[p].status = 401

C1_Witness ==
  \E p \in Procs : /\ Done(p) /\ req[p].kind = "refresh" /\ req[p].seq
                   /\ req[p].status = 200 /\ req[p].tok \in redeemed

\* C2: under every interleaving of refresh requests that present the same
\* refresh token, at most one of them is answered 200.
C2_RotationOneShot == redeemedTwice = {}

\* C3: a request through the gate that presents a validly signed, unexpired
\* token of a principal whose status is INACTIVE when the request arrives is
\* answered 403 USER_INACTIVE and the handler behind the gate is not
\* entered; while the principal is ACTIVE at the gate's lookup the request
\* passes the gate.
C3_DeactivationTakesEffect ==
  \A p \in Procs : req[p].kind \in GateKinds =>
    /\ (req[p].live /\ req[p].inactiveAtStart) =>
         /\ ~req[p].ran
         /\ Done(p) => (req[p].status = 403 /\ req[p].code = "USER_INACTIVE")
    /\ (Done(p) /\ req[p].at = "gateFind"
          /\ FindUserById(req[p].tok.sub).status = "ACTIVE") =>
         /\ req[p].code # "USER_INACTIVE"
         /\ req[p].ran \/ (req[p].kind \in AdminKinds /\ req[p].code = "FORBIDDEN")

C3_Witness ==
  \E p \in Procs : /\ Done(p) /\ req[p].kind \in GateKinds
                   /\ req[p].tok \in issued /\ req[p].tok.type = "access"
                   /\ req[p].live /\ req[p].inactiveAtStart
                   /\ req[p].status = 403 /\ ~req[p].ran

\* C4: once logout has answered 200 for a refresh token, the ledger holds no
\* row for that token, and every refresh request that presents it from then
\* on is answered 401, also when a refresh of the same token was in flight
\* while the logout ran.
C4_LogoutRevokes ==
  /\ \A t \in revoked : ~\E r \in ledger : r.tokenHash = hashToken(t)
  /\ \A p \in Procs : (Done(p) /\ req[p].kind = "refresh" /\ req[p].afterLogout) =>
       req[p].status = 401

C4_Witness ==
  \E p \in Procs : /\ Done(p) /\ req[p].kind = "refresh" /\ req[p].afterLogout
                   /\ req[p].tok \in redeemed /\ req[p].status = 401

\* C5: logout of a correctly signed, unexpired refresh token is answered 200
\* every time, also when the ledger holds no row for it, and then leaves the
\* ledger as it is; any other non-empty token is answered 401 and the
\* ledger is unchanged.
C5_LogoutIdempotent ==
  /\ [](\A p \in Procs : (Done(p) /\ req[p].kind = "logout") =>
          /\ (req[p].live /\ req[p].tok.type = "refresh") => req[p].status = 200
          /\ (req[p].tok.form # "empty" /\ ~(req[p].live /\ req[p].tok.type = "refresh")) =>
               req[p].status = 401)
  /\ [][\A p \in Procs : (Answers(p) /\ req'[p].kind = "logout") =>
          /\ req'[p].status = 401 => ledger' = ledger
          /\ (~\E r \in ledger : r.tokenHash = hashToken(req'[p].tok)) => ledger' = ledger
          /\ ledger' = {r \in ledger : r.tokenHash # hashToken(req'[p].tok)}
               \/ ledger' = ledger]_vars

C5_Witness ==
  \E p \in Procs : /\ Done(p) /\ req[p].kind = "logout" /\ req[p].afterLogout
                   /\ req[p].status = 200 /\ ledger # {}

\* C6: on a route behind the role gate a request that passes the auth gate
\* as a principal whose role is not ADMIN is answered 403 FORBIDDEN and the
\* handler is not entered; the handler is entered only for a principal the
\* store holds as ACTIVE with role ADMIN; a request sends exactly one
\* response.
C6_RoleGate ==
  /\ [](\A p \in Procs :
          /\ req[p].nresp = IF Done(p) THEN 1 ELSE 0
          /\ (Done(p) /\ req[p].kind \in AdminKinds /\ req[p].at = "gateFind"
                /\ FindUserById(req[p].tok.sub).status = "ACTIVE"
                /\ FindUserById(req[p].tok.sub).role # "ADMIN") =>
               (req[p].status = 403 /\ req[p].code = "FORBIDDEN" /\ ~req[p].ran))
  /\ [][\A p \in Procs : (Enters(p) /\ req'[p].kind \in AdminKinds) =>
          /\ FindUserById(req'[p].tok.sub).role = "ADMIN"
          /\ FindUserById(req'[p].tok.sub).status = "ACTIVE"]_vars

C6_Witness ==
  \E p \in Procs : /\ Done(p) /\ req[p].kind \in AdminKinds /\ req[p].user.role = "USER"
                   /\ req[p].status = 403 /\ req[p].code = "FORBIDDEN" /\ ~req[p].ran

\* C7: the handler behind the gate is entered only when the presented token
\* is correctly signed and unexpired, its subject is usable, and the
\* principal exists and is ACTIVE at the lookup; the context attached is the
\* principal as read from the store; otherwise the first failing check in
\* the order signature, expiry, subject, existence, status gives the answer
\* 401, 401 TOKEN_EXPIRED, 401, 404, 403.
C7_GateAdmits ==
  /\ [](\A p \in Procs : (Done(p) /\ req[p].kind \in GateKinds) =>
          LET r == req[p]
              u == FindUserById(r.tok.sub)
          IN
          /\ r.at = "start" =>
               /\ ~r.ran /\ r.status = 401
               /\ r.code = IF r.tok.form = "signed" /\ ~r.live THEN "TOKEN_EXPIRED"
                           ELSE "UNAUTHORIZED"
               /\ r.tok.form # "signed" \/ ~r.live \/ r.tok.sub = 0
          /\ r.at = "gateFind" =>
               /\ r.tok.form = "signed" /\ r.live /\ r.tok.sub # 0
               /\ u = NoUser => (r.status = 404 /\ r.code = "USER_NOT_FOUND" /\ ~r.ran)
               /\ (u # NoUser /\ u.status # "ACTIVE") =>
                    (r.status = 403 /\ r.code = "USER_INACTIVE" /\ ~r.ran)
               /\ (u # NoUser /\ u.status = "ACTIVE") =>
                    (r.ran \/ (r.kind \in AdminKinds /\ r.code = "FORBIDDEN")))
  /\ [][\A p \in Procs : (Enters(p) /\ req'[p].kind \in GateKinds) =>
          LET t == req'[p].tok
              u == FindUserById(t.sub)
          IN /\ t.form = "signed" /\ req'[p].live /\ t.sub # 0
             /\ u # NoUser /\ u.status = "ACTIVE"
             /\ req'[p].user = [id |-> u.id, email |-> u.email, name |-> u.name,
                                role |-> u.role, status |-> u.status]]_vars

C7_Witness ==
  \E p \in Procs : /\ Done(p) /\ req[p].kind = "me" /\ req[p].hdr = "bearer"
                   /\ req[p].ran /\ req[p].status = 200
                   /\ req[p].data.id = req[p].tok.sub /\ req[p].data.status = "ACTIVE"

\* C8: a request through the gate whose Authorization header is absent or
\* is not exactly "Bearer <token>" is answered 401 UNAUTHORIZED before any
\* principal lookup, and the handler is not entered.
C8_MalformedHeaderRejected ==
  \A p \in Procs : (req[p].kind \in GateKinds /\ req[p].hdr # "bearer") =>
    /\ Done(p) /\ req[p].at = "start"
    /\ req[p].status = 401 /\ req[p].code = "UNAUTHORIZED" /\ ~req[p].ran

\* C9: a refresh request that presents a correctly signed token whose expiry
\* has passed is answered 401 TOKEN_EXPIRED; one that presents a token with
\* a bad signature or a string that is no token is answered 401
\* UNAUTHORIZED; either is answered before the ledger is read, the ledger is
\* unchanged and no token is issued.
C9_RefreshFailureCodes ==
  /\ [](\A p \in Procs :
          (req[p].kind = "refresh" /\ req[p].tok.form # "empty"
             /\ (req[p].tok.form # "signed" \/ ~req[p].live)) =>
            /\ Done(p) /\ req[p].at = "start" /\ req[p].status = 401
            /\ req[p].code = IF req[p].tok.form = "signed" THEN "TOKEN_EXPIRED"
                             ELSE "UNAUTHORIZED")
  /\ [][\A p \in Procs :
          (Answers(p) /\ req'[p].kind = "refresh" /\ req'[p].at = "start") =>
            (ledger' = ledger /\ issued' = issued)]_vars

C9_Witness ==
  \E p \in Procs : /\ Done(p) /\ req[p].kind = "refresh" /\ req[p].at = "start"
                   /\ req[p].tok \in issued /\ req[p].tok.type = "refresh"
                   /\ req[p].code = "TOKEN_EXPIRED" /\ ledger # {}

\* C10: a refresh or logout request that presents a correctly signed,
\* unexpired token whose type is not "refresh" (an access token) is
\* answered 401 UNAUTHORIZED; the ledger is unchanged and no token is
\* issued or revoked.
C10_TypeConfinement ==
  /\ [](\A p \in Procs :
          (req[p].kind \in {"refresh", "logout"} /\ req[p].live
             /\ req[p].tok.type # "refresh") =>
            /\ Done(p) /\ req[p].at = "start"
            /\ req[p].status = 401 /\ req[p].code = "UNAUTHORIZED")
  /\ [][\A p \in Procs :
          (Answers(p) /\ req'[p].kind \in {"refresh", "logout"} /\ req'[p].live
             /\ req'[p].tok.type # "refresh") =>
            (ledger' = ledger /\ issued' = issued /\ revoked' = revoked)]_vars

C10_Witness ==
  \E p \in Procs : /\ Done(p) /\ req[p].kind = "logout" /\ req[p].live
                   /\ req[p].tok \in issued /\ req[p].tok.type = "access"
                   /\ req[p].status = 401 /\ ledger # {}

\* C11: a refresh request whose token passed verification, the type check,
\* the ledger lookup and the row-expiry check, and whose owner exists but is
\* not ACTIVE, is answered 403 USER_INACTIVE; no token is issued and the
\* ledger is unchanged, so the row of the token is still in place under the
\* token's subject.
C11_InactiveRefreshKeepsRow ==
  [][\A p \in Procs :
       (req[p].kind = "refresh" /\ req[p].pc = "findUser" /\ Answers(p)
          /\ FindUserById(req[p].tok.sub) # NoUser
          /\ FindUserById(req[p].tok.sub).status # "ACTIVE") =>
         /\ req'[p].status = 403 /\ req'[p].code = "USER_INACTIVE"
         /\ ledger' = ledger /\ issued' = issued /\ nextJti' = nextJti
         /\ \E row \in ledger' : /\ row.tokenHash = hashToken(req'[p].tok)
                                  /\ row.userId = req'[p].tok.sub]_vars

C11_Witness ==
  \E p \in Procs : /\ Done(p) /\ req[p].kind = "refresh" /\ req[p].at = "findUser"
                   /\ req[p].status = 403
                   /\ FindUserById(req[p].tok.sub).status = "INACTIVE"
                   /\ \E row \in ledger : row.tokenHash = hashToken(req[p].tok)

\* C13: when the ledger lookup of a refresh request finds the row of the
\* presented token under the token's subject and the row's expiresAt is not
\* later than the current time (expiresAt = now included), the request goes
\* on to delete that row; it is then answered 401 TOKEN_EXPIRED, the row is
\* gone and no token is issued.
C13_LazyCleanup ==
  [][\A p \in Procs :
       /\ (req[p].kind = "refresh" /\ req[p].pc = "lookup" /\ req'[p].pc # "lookup"
             /\ \E row \in ledger : /\ row.tokenHash = hashToken(req[p].tok)
                                     /\ row.userId = req[p].tok.sub
                                     /\ row.expiresAt <= DateNow) =>
            req'[p].pc = "delExpired"
       /\ (req[p].kind = "refresh" /\ req[p].pc = "delExpired" /\ Answers(p)) =>
            /\ req'[p].status = 401 /\ req'[p].code = "TOKEN_EXPIRED"
            /\ ledger' = {row \in ledger : row.tokenHash # hashToken(req[p].tok)}
            /\ issued' = issued]_vars

\* C14: no two ledger rows have the same tokenHash; a login or refresh that
\* persists a token whose digest is already in the ledger fails (500)
\* without adding a row or handing out a token, and one that persists a new
\* digest adds exactly one row.
C14_LedgerKeyUnique ==
  /\ [](\A r1, r2 \in ledger : r1.tokenHash = r2.tokenHash => r1 = r2)
  /\ [][\A p \in Procs :
          (req[p].pc \in {"loginPersist", "persist"} /\ Answers(p)) =>
            IF \E row \in ledger : row.tokenHash = hashToken(req[p].newTok)
              THEN ledger' = ledger /\ issued' = issued /\ req'[p].status = 500
              ELSE /\ Cardinality(ledger') = Cardinality(ledger) + 1
                   /\ \E row \in ledger' : row.tokenHash = hashToken(req[p].newTok)
                   /\ req'[p].status = 200]_vars

C14_Witness ==
  \E p \in Procs : /\ Done(p) /\ req[p].at \in {"loginPersist", "persist"}
                   /\ req[p].status = 500 /\ Cardinality(ledger) >= 1

\* C15: ledger lifecycle frame. A step adds a row only when it is the step in
\* which a login or a refresh answers 200; a step removes a row only when it
\* is a logout, the expiry cleanup of a refresh or the rotation of a refresh;
\* and a refresh that answers with a failure from any branch other than the
\* expiry branch leaves the row of the presented token in the ledger.
C15_LedgerFrame ==
  [][/\ (ledger' \ ledger # {}) =>
          \E p \in Procs : /\ req[p].kind \in {"login", "refresh"} /\ Answers(p)
                           /\ req'[p].status = 200
     /\ (ledger \ ledger' # {}) =>
          \E p \in Procs :
            \/ req[p].kind = "logout" /\ req[p].pc = "logoutDel"
            \/ req[p].kind = "refresh" /\ req[p].pc \in {"delExpired", "rotate"}
     /\ \A p \in Procs :
          (req[p].kind = "refresh" /\ Answers(p) /\ req'[p].status # 200
             /\ req'[p].at \in {"findUser", "persist"}) =>
            \E row \in ledger' : row.tokenHash = hashToken(req[p].tok)]_vars

\* C16: access tokens are stateless. A request through the gate that carries
\* a live access token the server issued, for a principal that exists and is
\* ACTIVE, is admitted whatever the ledger holds, also when no row of the
\* principal is left after logout or rotation; no step of the gate changes
\* the ledger.
C16_AccessStateless ==
  /\ [](\A p \in Procs :
          (/\ Done(p) /\ req[p].kind = "me" /\ req[p].hdr = "bearer"
           /\ req[p].tok \in issued /\ req[p].tok.type = "access" /\ req[p].live
           /\ FindUserById(req[p].tok.sub).status = "ACTIVE") =>
            /\ req[p].ran /\ req[p].status = 200
            /\ req[p].data.id = req[p].tok.sub)
  /\ [][\A p \in Procs :
          (req'[p].kind \in GateKinds /\ req'[p] # req[p]) => ledger' = ledger]_vars

C16_Witness ==
  \E p \in Procs :
    /\ Done(p) /\ req[p].kind = "me" /\ req[p].tok.type = "access"
    /\ req[p].tok \in issued /\ req[p].ran /\ req[p].status = 200
    /\ ~ \E row \in ledger : row.userId = req[p].tok.sub
    /\ \E t \in revoked \cup redeemed : t.sub = req[p].tok.sub

\* C17: datastore failures are not masked. In login, refresh and logout, a
\* request one of whose datastore calls has failed is answered at once with
\* 500 INTERNAL_SERVER_ERROR: it runs no later step and carries no tokens.
C17_FailuresNotMasked ==
  \A p \in Procs :
    req[p].threw =>
      /\ Done(p) /\ req[p].status = 500 /\ req[p].code = "INTERNAL_SERVER_ERROR"
      /\ req[p].newTok = NoTok /\ req[p].newAccess = NoTok

\* C18: login credentials. A login whose email belongs to no user, or whose
\* password is not the one the user's stored hash was made from, is answered
\* 401 UNAUTHORIZED with no token issued and the ledger unchanged; a login
\* with the right credentials is answered 200, its access token and refresh
\* token are issued, and exactly one row is added to the ledger, owned by
\* that principal and keyed by the digest of the refresh token.
C18_LoginCredentials ==
  [][\A p \in Procs :
       LET r == req'[p]
           u == FindUserByEmail(r.email)
           good == u # NoUser /\ u.passwordHash[2] = r.password
       IN
       /\ (req[p].pc = "idle" /\ r.kind = "login" /\ ~r.threw) =>
            IF good
              THEN /\ r.pc = "loginPersist" /\ r.user.id = u.id
                   /\ ledger' = ledger /\ issued' = issued
              ELSE /\ r.pc = "done" /\ r.status = 401 /\ r.code = "UNAUTHORIZED"
                   /\ r.newTok = NoTok /\ r.newAccess = NoTok /\ r.data = NoCtx
                   /\ ledger' = ledger /\ issued' = issued
       /\ (req[p].kind = "login" /\ req[p].pc = "loginPersist" /\ Answers(p)) =>
            /\ good /\ r.status = 200 /\ r.data.id = u.id
            /\ req[p].newAccess.form = "signed" /\ req[p].newAccess.type = "access"
            /\ req[p].newTok.form = "signed" /\ req[p].newTok.type = "refresh"
            /\ req[p].newAccess.sub = u.id /\ req[p].newTok.sub = u.id
            /\ {req[p].newAccess, req[p].newTok} \subseteq issued'
            /\ ledger \subseteq ledger'
            /\ \E row \in ledger' \ ledger :
                 /\ ledger' \ ledger = {row}
                 /\ row.userId = u.id /\ row.tokenHash = hashToken(req[p].newTok)]_vars

C18_Witness ==
  \E p \in Procs : /\ Done(p) /\ req[p].kind = "login" /\ req[p].status = 401
                   /\ FindUserByEmail(req[p].email) # NoUser
                   /\ req[p].password = "wrong-password"
                   /\ \E row \in ledger : row.userId = FindUserByEmail(req[p].email).id

\* C19: signup uniqueness. No two users share an email, and every signup
\* that is turned down, also one that lost a race against another signup of
\* the same email, is answered 409 DUPLICATE_RESOURCE and creates no user.
C19_SignupUnique ==
  /\ \A u1, u2 \in users : u1.email = u2.email => u1 = u2
  /\ \A p \in Procs :
       (Done(p) /\ req[p].kind = "signup" /\ req[p].status # 201) =>
         /\ req[p].status = 409 /\ req[p].code = "DUPLICATE_RESOURCE"
         /\ \E u \in users : u.email = req[p].email /\ u.id # req[p].data.id

\* C20: order ownership isolation. GET /orders/:id and PATCH
\* /orders/:id/cancel answer 200 only to the owner of the order; a principal
\* that has passed the gate and is not the owner of an existing order, role
\* ADMIN included, is answered 403 or 404; and no step of a request of these
\* two routes changes an order its principal does not own.
C20_OrderOwnership ==
  [][\A p \in Procs :
       LET r == req'[p]
           o == FindOrder(r.target)
       IN
       /\ (r.kind \in {"orderGet", "orderCancel"} /\ Answers(p)) =>
            /\ r.status = 200 =>
                 /\ o # NoOrder /\ r.ran /\ o.userId = r.user.id
                 /\ o.userId = r.tok.sub /\ r.order.id = r.target
            /\ (r.ran /\ o # NoOrder /\ o.userId # r.user.id) =>
                 /\ r.status \in {403, 404} /\ r.order = NoOrder
                 /\ orders' = orders
       /\ (r.kind \in {"orderGet", "orderCancel"} /\ req[p] # r) =>
            \A old \in orders \ orders' : old.userId = r.user.id /\ old.userId = r.tok.sub]_vars

C20_Witness ==
  \E p \in Procs :
    /\ Done(p) /\ req[p].kind = "orderCancel" /\ req[p].ran
    /\ req[p].user.role = "ADMIN" /\ req[p].status = 404
    /\ FindOrder(req[p].target) # NoOrder
    /\ FindOrder(req[p].target).userId # req[p].user.id
    /\ \E o \in orders : o.status = "CANCELLED"

\* C21: the known refresh race. Once a refresh request has found the row of
\* its token in the lookup, it is answered 200 even when another request
\* redeems the same token meanwhile: its delete of the row that is already
\* gone changes nothing and raises nothing, and its 200 adds one more new
\* row of the same owner, for a token different from the one the first
\* redemption returned.
C21_KnownRefreshRace ==
  [][\A p \in Procs :
       LET r == req[p] IN
       r.kind = "refresh" =>
         /\ (r.pc \in {"findUser", "rotate", "persist"} /\ Answers(p)) =>
              r.pc = "persist" /\ req'[p].status = 200
         /\ (r.pc = "rotate" /\ req'[p].pc # r.pc /\ FindRow(hashToken(r.tok)) = NoRow) =>
              ledger' = ledger /\ req'[p].pc = "persist"
         /\ (r.pc = "persist" /\ Answers(p) /\ r.tok \in redeemed) =>
              /\ r.tok \in redeemedTwice'
              /\ r.newTok \notin issued /\ r.newTok \in issued'
              /\ \E row \in ledger' \ ledger :
                   /\ ledger' = ledger \cup {row}
                   /\ row.userId = r.tok.sub
                   /\ row.tokenHash = hashToken(r.newTok)
              /\ \E t1 \in issued : /\ t1.type = "refresh" /\ t1.sub = r.tok.sub
                                    /\ t1 # r.tok /\ t1 # r.newTok]_vars

C21_Witness ==
  /\ redeemedTwice # {}
  /\ \E t1, t2 \in issued \ redeemedTwice :
       /\ t1 # t2 /\ t1.type = "refresh" /\ t2.type = "refresh" /\ t1.sub = t2.sub
       /\ Live(t1) /\ Live(t2)
       /\ FindRow(hashToken(t1)).userId = t1.sub
       /\ FindRow(hashToken(t2)).userId = t2.sub
       /\ \A t \in redeemedTwice : t.sub = t1.sub /\ FindRow(hashToken(t)) = NoRow

\* C22: fresh principal state on every request. The gate and the role gate
\* decide by the role and status stored for the token's subject when the
\* request is handled, not by the role inside the token: an admin route is
\* entered exactly when the stored role is ADMIN, otherwise the answer is
\* 403 FORBIDDEN, and the attached context carries the stored role; so a
\* token issued before a role change is judged by the new role.
C22_FreshPrincipalState ==
  [][\A p \in Procs :
       LET r == req[p]
           u == FindUserById(r.tok.sub)
       IN
       (r.kind \in GateKinds \cup RoleKinds /\ r.pc = "gateFind" /\ req'[p] # r
          /\ u # NoUser /\ u.status = "ACTIVE") =>
         /\ req'[p].user = Summary(u)
         /\ r.kind = "me" => (req'[p].status = 200 /\ req'[p].data.role = u.role)
         /\ r.kind \in AdminKinds \cup RoleKinds =>
              IF u.role = "ADMIN" THEN req'[p].ran
              ELSE /\ ~req'[p].ran /\ req'[p].pc = "done"
                   /\ req'[p].status = 403 /\ req'[p].code = "FORBIDDEN"
                   /\ users' = users]_vars

C22_Witness ==
  \E p \in Procs :
    /\ Done(p) /\ req[p].kind \in AdminKinds \cup RoleKinds
    /\ req[p].tok.role = "ADMIN" /\ req[p].tok.type = "access"
    /\ req[p].status = 403 /\ req[p].code = "FORBIDDEN" /\ ~req[p].ran
    /\ \E u \in users : u.id = 2 /\ u.role = "ADMIN"

\* C23: only access tokens authenticate requests. A request through the
\* gate whose bearer token does not carry type "access", a validly signed
\* and unexpired refresh token included, gets no principal and does not
\* enter the handler, and its answer is 401.
C23_OnlyAccessTokens ==
  \A p \in Procs :
    (req[p].kind \in GateKinds /\ req[p].tok.type # "access") =>
      /\ ~req[p].ran /\ req[p].user = NoCtx
      /\ Done(p) => req[p].status = 401

\* C24: order cancellation state machine. When a cancel request of the
\* owner is answered, an order that is not CANCELLED at that moment becomes
\* CANCELLED and the answer is 200, and an order that is already CANCELLED
\* is left as it is and the answer is 409 STATE_CONFLICT; so of the cancel
\* requests on one order, in sequence or interleaved, at most one is
\* answered 200.
C24_CancelStateMachine ==
  [][\A p \in Procs :
       LET r == req[p]
           o == FindOrder(r.target)
       IN
       (r.kind = "orderCancel" /\ r.pc \in {"orderFind", "orderCancel"} /\ Answers(p)
          /\ OrderVisible(o, r.user)) =>
         IF o.status # "CANCELLED"
           THEN /\ req'[p].status = 200
                /\ orders' = (orders \ {o}) \cup {[o EXCEPT !.status = "CANCELLED"]}
           ELSE /\ req'[p].status = 409 /\ req'[p].code = "STATE_CONFLICT"
                /\ orders' = orders]_vars

\* C25: ledger row ownership matches the token. Every ledger row stores the
\* digest of a refresh token the server issued, and the row's owner id is
\* that token's subject; so the lookup of a refresh request for an issued
\* token never rejects a row it has found.
C25_RowOwnerIsSubject ==
  /\ [](\A row \in ledger :
          \E t \in issued : /\ t.type = "refresh" /\ hashToken(t) = row.tokenHash
                            /\ row.userId = t.sub)
  /\ [][\A p \in Procs :
          (req[p].kind = "refresh" /\ req[p].pc = "lookup" /\ req[p].tok \in issued
             /\ FindRow(hashToken(req[p].tok)) # NoRow /\ req'[p].pc # "lookup") =>
            /\ FindRow(hashToken(req[p].tok)).userId = req[p].tok.sub
            /\ req'[p].status # 401]_vars

C25_Witness ==
  \E p \in Procs :
    /\ Done(p) /\ req[p].kind = "refresh" /\ req[p].status = 200
    /\ \E row \in ledger : row.userId = req[p].tok.sub /\ row.userId = 2
    /\ \E t \in issued : t.sub = 2 /\ t.type = "refresh" /\ t \notin redeemed
                         /\ FindRow(hashToken(t)).userId = 2

\* C26: rotation is all-or-nothing. A refresh request that is answered 500
\* after its lookup found the row of its token leaves that row in the
\* ledger, so a retry can redeem the token; and the row of a live issued
\* refresh token that was not logged out is absent only when a refresh of
\* that token was answered 200 (or is at its insert step).
C26_RotationAllOrNothing ==
  /\ \A p \in Procs :
       (Done(p) /\ req[p].kind = "refresh" /\ req[p].status = 500
          /\ req[p].at \in {"findUser", "persist"}) =>
         FindRow(hashToken(req[p].tok)).userId = req[p].tok.sub
  /\ \A t \in issued :
       (/\ t.type = "refresh" /\ Live(t) /\ t \notin revoked
        /\ FindRow(hashToken(t)) = NoRow
        /\ \A p \in Procs : ~(req[p].kind = "refresh" /\ req[p].tok = t
                                /\ req[p].pc = "persist")) =>
         t \in redeemed

\* C27: session independence. The delete of a logout and the delete of a
\* rotation remove the row that stores the digest of the presented token
\* and no other; the insert of a rotation removes nothing; and a refresh
\* token that was issued and was itself neither redeemed nor logged out is
\* redeemed with 200, whatever happened to the other tokens of its
\* principal and of other principals.
C27_SessionIndependence ==
  /\ [][\A p \in Procs :
          LET r == req[p] IN
          /\ (/\ \/ r.kind = "logout" /\ r.pc = "logoutDel"
                 \/ r.kind = "refresh" /\ r.pc = "rotate"
              /\ req'[p].pc # r.pc) =>
               ledger' = { row \in ledger : row.tokenHash # hashToken(r.tok) }
          /\ (r.kind = "refresh" /\ r.pc = "persist" /\ Answers(p)) =>
               ledger \subseteq ledger']_vars
  /\ [](\A p \in Procs :
          (/\ Done(p) /\ req[p].kind = "refresh"
           /\ req[p].tok \in issued /\ req[p].tok.type = "refresh"
           /\ ~req[p].afterOk /\ ~req[p].afterLogout) =>
            req[p].status = 200)

C27_Witness ==
  \E p \in Procs :
    /\ Done(p) /\ req[p].kind = "refresh" /\ req[p].status = 200
    /\ \E t1 \in revoked : t1.sub = req[p].tok.sub /\ t1 # req[p].tok
    /\ \E row \in ledger : row.userId # req[p].tok.sub

LikeRows(id) == { l \in reviewLike : l.reviewId = id }

\* C29: review like counter consistency. When a POST or DELETE
\* /reviews/:reviewId/likes request has answered 201 or 204, the likeCount
\* of its review equals the number of like rows stored for that review and
\* is not negative; a like the principal already had leaves the count as it
\* was, and so does deleting a like the principal did not have.
C29_LikeCounter ==
  [][\A p \in Procs :
       LET r == req[p] IN
       (r.kind \in LikeKinds /\ r.pc \in {"likeTx", "unlikeTx"} /\ req'[p].pc = "done"
          /\ r.target \in DOMAIN review
          /\ req'[p].status \in {201, 204})
       => /\ review'[r.target].likeCount = Cardinality(LikeRows(r.target)')
          /\ review'[r.target].likeCount >= 0
          /\ (r.kind = "like" /\ HasLike(r.target, r.user.id)) => review' = review
          /\ (r.kind = "unlike" /\ ~HasLike(r.target, r.user.id)) => review' = review]_vars

\* ... and the same for the requests on reviews whose counter agreed with
\* their like rows before the request.
C29_CounterKept ==
  [][\A p \in Procs :
       LET r == req[p] IN
       (r.kind \in LikeKinds /\ r.pc \in {"likeTx", "unlikeTx"} /\ req'[p].pc = "done"
          /\ r.target \in DOMAIN review
          /\ review[r.target].likeCount = Cardinality(LikeRows(r.target)))
       => /\ review'[r.target].likeCount = Cardinality(LikeRows(r.target)')
          /\ review'[r.target].likeCount >= 0]_vars

\* C30: the category list cache is never stale after a write. Once a
\* category create, update or delete has answered success, a GET /categories
\* response served from the cache was not computed from the store as it was
\* before that write, also when a list request was in flight together with
\* the write; and an entry is not served after its TTL has passed.
C30_CacheNeverStale ==
  [][\A p \in Procs :
       LET r == req[p]
           key == buildCacheKey(CATEGORY_CACHE_PREFIX, r.name)
       IN
       (r.kind = "catList" /\ r.pc = "listGet" /\ req'[p].pc = "done")
       => /\ req'[p].list.ver >= acked
          /\ cache[key].expiresAt >= DateNow]_vars

\* ... the TTL half alone.
C30_TtlKept ==
  [][\A p \in Procs :
       LET r == req[p]
           key == buildCacheKey(CATEGORY_CACHE_PREFIX, r.name)
       IN
       (r.kind = "catList" /\ r.pc = "listGet" /\ req'[p].pc = "done")
       => cache[key].expiresAt >= DateNow]_vars

=============================================================================
